---- MODULE Spec2Model ----
(***************************************************************************)
(* Model of the v-animate plugin orchestration engine:                     *)
(*   - the shared frame clock (RafCoordinator, createRafControls),         *)
(*   - the plugin registry (AnimationPluginRegistry.setupPlugins, ...),    *)
(*   - session construction and the play/stop arbitration (useAnimation).  *)
(* Each part has its own specification over the shared set of variables.   *)
(***************************************************************************)
EXTENDS Integers, Sequences, FiniteSets, TLC

VARIABLES
    clock,        \* RafCoordinator + host frame scheduler
    timers,       \* createRafControls: subscriptionId of each timer
    step,         \* the running frame callback `step`, if any
    registry,     \* AnimationPluginRegistry.plugins (Map, insertion order)
    construct,    \* outcome of useAnimation(): result, event log, consumer
    session       \* orchestrator state of one constructed session

vars == <<clock, timers, step, registry, construct, session>>

(***************************************************************************)
(* Bounds                                                                  *)
(***************************************************************************)
NumTimers == 2      \* timers created with createRafControls
MaxSymbols == 3     \* coordinator.add calls in one behaviour
MaxFrames == 5      \* raf() requests in one behaviour

Null == 0           \* JavaScript null for rafId / subscriptionId

Timers == 1..NumTimers

(***************************************************************************)
(* Sequence helpers                                                        *)
(***************************************************************************)
Range(s) == {s[i] : i \in 1..Len(s)}

RemoveElem(s, x) == SelectSeq(s, LAMBDA y : y # x)

(***************************************************************************)
(* Shared clock: RafCoordinator                                            *)
(*   clock.callbacks : subscriber symbols in Map insertion order           *)
(*   clock.rafId     : this.rafId (Null or the id of the last request)     *)
(*   clock.pending   : frame requests outstanding at the host              *)
(*   clock.symbols   : number of Symbol('raf-subscriber') created          *)
(*   clock.frames    : number of raf() calls made (ids are 1, 2, ...)      *)
(***************************************************************************)
ClockInit ==
    [callbacks |-> <<>>, rafId |-> Null, pending |-> {}, symbols |-> 0, frames |-> 0]

\* raf(step): the host hands out a fresh id and keeps the request outstanding
Raf(c) ==
    [c EXCEPT !.frames = c.frames + 1,
              !.pending = c.pending \cup {c.frames + 1},
              !.rafId = c.frames + 1]

\* caf(id): cancelling an id that already fired is a no-op
Caf(c, id) == [c EXCEPT !.pending = c.pending \ {id}]

\* ensureLoop(): request a frame unless this.rafId is set
EnsureLoop(c) == IF c.rafId # Null THEN c ELSE Raf(c)

\* add(callback): new symbol appended to the Map, then ensureLoop()
CoordinatorAdd(c) ==
    EnsureLoop([c EXCEPT !.symbols = c.symbols + 1,
                         !.callbacks = Append(c.callbacks, c.symbols + 1)])

CoordinatorRemove_KeepEntry(c, id) == c

\* remove(id): delete; when the Map is empty and rafId is set, caf and clear
CoordinatorRemove(c, id) ==
    IF id \notin Range(c.callbacks) THEN c
    ELSE LET d == [c EXCEPT !.callbacks = RemoveElem(c.callbacks, id)]
         IN IF Len(d.callbacks) = 0 /\ d.rafId # Null
            THEN [Caf(d, d.rafId) EXCEPT !.rafId = Null]
            ELSE d

\* tail of `step` after callbacks.forEach: re-request or clear rafId
StepTail(c) ==
    IF Len(c.callbacks) > 0 THEN Raf(c) ELSE [c EXCEPT !.rafId = Null]

\* Map.forEach visits entries in insertion order, including entries added
\* during the iteration, and skips entries deleted before being reached.
\* Symbols are created in increasing order, so the entries still to visit
\* are those greater than the one visited last.
ToVisit(c, cursor) == {s \in Range(c.callbacks) : s > cursor}

NextVisit(c, cursor) ==
    CHOOSE s \in ToVisit(c, cursor) : \A t \in ToVisit(c, cursor) : s <= t

(***************************************************************************)
(* createRafControls: resume / pause of one timer                          *)
(***************************************************************************)
\* code may run between frames, or inside a subscriber callback of a frame
CanRunCode == ~step.active \/ step.cursor # Null

\* resume(): no-op when subscribed, else coordinator.add
Resume(t) ==
    /\ CanRunCode
    /\ timers[t] = Null
    /\ clock.symbols < MaxSymbols
    /\ clock.frames < MaxFrames
    /\ clock' = CoordinatorAdd(clock)
    /\ timers' = [timers EXCEPT ![t] = clock.symbols + 1]
    /\ UNCHANGED <<step, registry, construct, session>>

\* pause(): no-op when not subscribed, else coordinator.remove
Pause(t) ==
    /\ CanRunCode
    /\ timers[t] # Null
    /\ clock' = CoordinatorRemove(clock, timers[t])
    /\ timers' = [timers EXCEPT ![t] = Null]
    /\ UNCHANGED <<step, registry, construct, session>>

\* One run of `step`:
\*   step.active    : `step` is running
\*   step.timestamp : its argument (the id of the fired request stands for
\*                    the time of the frame)
\*   step.cursor    : the entry callbacks.forEach visited last
\*   step.invoked   : the calls cb(timestamp) made so far, in order
\*   step.present   : the entries of the Map when `step` started
StepInit ==
    [active |-> FALSE, cursor |-> Null, invoked |-> <<>>, present |-> {},
     timestamp |-> Null]

\* cb(timestamp) for the entry with symbol id
Invocation(id, timestamp) == [id |-> id, time |-> timestamp]

\* the host fires an outstanding request: `step` starts running
FrameFires(r) ==
    /\ ~step.active
    /\ r \in clock.pending
    /\ clock' = [clock EXCEPT !.pending = clock.pending \ {r}]
    /\ step' = [active |-> TRUE, cursor |-> Null, invoked |-> <<>>,
                present |-> Range(clock.callbacks), timestamp |-> r]
    /\ UNCHANGED <<timers, registry, construct, session>>

\* callbacks.forEach reaches the next entry and invokes it
StepInvoke ==
    /\ step.active
    /\ ToVisit(clock, step.cursor) # {}
    /\ step' = [step EXCEPT !.cursor = NextVisit(clock, step.cursor),
                            !.invoked = Append(step.invoked,
                                Invocation(NextVisit(clock, step.cursor), step.timestamp))]
    /\ UNCHANGED <<clock, timers, registry, construct, session>>

\* forEach is exhausted: the tail of `step` runs and the frame ends
StepEnd ==
    /\ step.active
    /\ ToVisit(clock, step.cursor) = {}
    /\ clock.frames < MaxFrames
    /\ clock' = StepTail(clock)
    /\ step' = StepInit
    /\ UNCHANGED <<timers, registry, construct, session>>

(***************************************************************************)
(* Plugin registry: AnimationPluginRegistry                                *)
(*   registry : the plugins Map as a sequence of descriptors, in insertion *)
(*              (registration) order.  A descriptor is                     *)
(*     [name, priority, requires, conflicts, kind]                         *)
(*   priority : a number or NoPriority (the field is undefined)            *)
(*   requires : sequence of keys; a key is its '.'-separated segments      *)
(*   conflicts: sequence of plugin names                                   *)
(*   kind     : what setup() does: "plain" returns a system, "raf" also    *)
(*              resumes a timer on the shared clock before returning (as   *)
(*              relationshipsPlugin does), "throws" throws                 *)
(***************************************************************************)
NoPriority == -1
DefaultPriority == 50

PluginNames == <<"a", "b", "c">>
NameSet == Range(PluginNames)

\* plugin.priority ?? 50
PriorityOf(p) == IF p.priority = NoPriority THEN DefaultPriority ELSE p.priority

\* optional members of the descriptors of the modelled plugins
HasRegisterWatchers(name) == name # "c"
HasContributeToAPI(name) == name # "a"

\* plugin.optionsKey || plugin.name  ("" stands for no declared optionsKey)
OptionsKey(p) == IF p.optionsKey # "" THEN p.optionsKey ELSE p.name

\* hasPluginOptions: undefined/null -> false, boolean -> itself, else true
HasPluginOptions(p, options) ==
    LET value == options.values[OptionsKey(p)]
    IN CASE value \in {"undefined", "null"} -> FALSE
         [] value \in {"true", "false"} -> value = "true"
         [] OTHER -> TRUE

\* plugin.shouldActivate?.(options) ?? this.hasPluginOptions(plugin, options)
\* ("none" stands for a descriptor without the predicate)
ShouldActivate(p, options) ==
    IF p.shouldActivate # "none" THEN p.shouldActivate = "true"
    ELSE HasPluginOptions(p, options)

\* getActivePlugins: Map.forEach in insertion order, keeping the active ones
GetActivePlugins(reg, options) ==
    SelectSeq(reg, LAMBDA p : ShouldActivate(p, options))

ActiveNames(active) == {active[i].name : i \in 1..Len(active)}

NoError == [kind |-> "none", plugin |-> "", other |-> ""]

\* required.split('.')[0]
RequiredPlugin(key) == Head(key)

\* validateDependencies: the first unmet requirement in iteration order throws
RECURSIVE RequirePairs(_)
RequirePairs(ps) ==
    IF ps = <<>> THEN <<>>
    ELSE [i \in 1..Len(Head(ps).requires) |->
            [plugin |-> Head(ps).name, other |-> RequiredPlugin(Head(ps).requires[i])]]
         \o RequirePairs(Tail(ps))

\* variant: looks the requirement up among the registered plugins
ValidateDependencies_Registered(active) ==
    LET pairs == RequirePairs(active)
        unmet == SelectSeq(pairs, LAMBDA pr : pr.other \notin NameSet)
    IN IF unmet = <<>> THEN NoError
       ELSE [kind |-> "dependency", plugin |-> unmet[1].plugin, other |-> unmet[1].other]

ValidateDependencies(active) ==
    LET pairs == RequirePairs(active)
        unmet == SelectSeq(pairs, LAMBDA pr : pr.other \notin ActiveNames(active))
    IN IF unmet = <<>> THEN NoError
       ELSE [kind |-> "dependency", plugin |-> unmet[1].plugin, other |-> unmet[1].other]

\* checkConflicts: the first declared conflict that is active throws
RECURSIVE ConflictPairs(_)
ConflictPairs(ps) ==
    IF ps = <<>> THEN <<>>
    ELSE [i \in 1..Len(Head(ps).conflicts) |->
            [plugin |-> Head(ps).name, other |-> Head(ps).conflicts[i]]]
         \o ConflictPairs(Tail(ps))

\* variant: a conflict counts only when both sides declare it
CheckConflicts_MutualOnly(active) ==
    LET pairs == ConflictPairs(active)
        hit == SelectSeq(pairs, LAMBDA pr :
                    /\ pr.other \in ActiveNames(active)
                    /\ \E i \in 1..Len(pairs) :
                          pairs[i].plugin = pr.other /\ pairs[i].other = pr.plugin)
    IN IF hit = <<>> THEN NoError
       ELSE [kind |-> "conflict", plugin |-> hit[1].plugin, other |-> hit[1].other]

CheckConflicts(active) ==
    LET pairs == ConflictPairs(active)
        hit == SelectSeq(pairs, LAMBDA pr : pr.other \in ActiveNames(active))
    IN IF hit = <<>> THEN NoError
       ELSE [kind |-> "conflict", plugin |-> hit[1].plugin, other |-> hit[1].other]

\* the comparator of sortByPriority: priorityB - priorityA
\* variant: ascending comparator
ComparePriority_Ascending(a, b) == PriorityOf(a) - PriorityOf(b)

ComparePriority(a, b) == PriorityOf(b) - PriorityOf(a)

\* Array.prototype.sort is stable: an element is placed after every element
\* already sorted that does not compare greater than it
RECURSIVE InsertSorted(_, _)
InsertSorted(sorted, p) ==
    IF sorted = <<>> THEN <<p>>
    ELSE IF ComparePriority(sorted[Len(sorted)], p) <= 0
         THEN Append(sorted, p)
         ELSE Append(InsertSorted(SubSeq(sorted, 1, Len(sorted) - 1), p),
                     sorted[Len(sorted)])

RECURSIVE SortFrom(_, _)
SortFrom(sorted, rest) ==
    IF rest = <<>> THEN sorted
    ELSE SortFrom(InsertSorted(sorted, Head(rest)), Tail(rest))

SortByPriority(plugins) == SortFrom(<<>>, plugins)

\* a.cleanupPriority ?? a.priority ?? 50
CleanupPriorityOf(p) ==
    IF p.cleanupPriority # NoPriority THEN p.cleanupPriority ELSE PriorityOf(p)

\* the comparator of the second sort of getCleanupOrder: cleanupA - cleanupB
CompareCleanup(a, b) == CleanupPriorityOf(a) - CleanupPriorityOf(b)

RECURSIVE InsertSortedCleanup(_, _)
InsertSortedCleanup(sorted, p) ==
    IF sorted = <<>> THEN <<p>>
    ELSE IF CompareCleanup(sorted[Len(sorted)], p) <= 0
         THEN Append(sorted, p)
         ELSE Append(InsertSortedCleanup(SubSeq(sorted, 1, Len(sorted) - 1), p),
                     sorted[Len(sorted)])

RECURSIVE SortFromCleanup(_, _)
SortFromCleanup(sorted, rest) ==
    IF rest = <<>> THEN sorted
    ELSE SortFromCleanup(InsertSortedCleanup(sorted, Head(rest)), Tail(rest))

\* getCleanupOrder: sortByPriority, then a stable sort by cleanup priority
GetCleanupOrder(plugins) == SortFromCleanup(<<>>, SortByPriority(plugins))

(***************************************************************************)
(* setupPlugins / registerWatchers / buildAPI                              *)
(* The running state of a construction is a record                         *)
(*   [log, exchange, clock, timers, error]                                 *)
(*   log      : calls made into plugins, in order                          *)
(*   seen     : for each call of the log, the keys that were present in    *)
(*              context.sharedData when the call was made                  *)
(*   exchange : keys present in context.sharedData                         *)
(*   timers   : subscriptionId of the timer owned by each plugin's system  *)
(***************************************************************************)
Event(ev, name) == [ev |-> ev, plugin |-> name]

SystemKey(name) == <<name, "system">>

\* a call is made: it is logged together with the exchange it can read
Logged(acc, e) ==
    [acc EXCEPT !.log = Append(acc.log, e), !.seen = Append(acc.seen, acc.exchange)]

\* the body of sortedPlugins.forEach in setupPlugins, for one plugin
\* variant: the catch block logs the error and does not rethrow
SetupOne_Swallow(acc, p) ==
    IF p.kind = "throws" THEN acc
    ELSE LET ran == [Logged(acc, Event("setup", p.name))
                        EXCEPT !.exchange = acc.exchange \cup {SystemKey(p.name)}]
         IN IF p.kind = "raf"
            THEN [ran EXCEPT !.clock = CoordinatorAdd(acc.clock),
                             !.timers = [acc.timers EXCEPT ![p.name] = acc.clock.symbols + 1]]
            ELSE ran

SetupOne(acc, p) ==
    IF p.kind = "throws"
    THEN [acc EXCEPT !.error = [kind |-> "setup", plugin |-> p.name, other |-> ""]]
    ELSE LET ran == [Logged(acc, Event("setup", p.name))
                        EXCEPT !.exchange = acc.exchange \cup {SystemKey(p.name)}]
         IN IF p.kind = "raf"
            THEN [ran EXCEPT !.clock = CoordinatorAdd(acc.clock),
                             !.timers = [acc.timers EXCEPT ![p.name] = acc.clock.symbols + 1]]
            ELSE ran

\* sortedPlugins.forEach: the rethrown error ends the iteration
RECURSIVE SetupEach(_, _)
SetupEach(acc, sorted) ==
    IF sorted = <<>> \/ acc.error.kind # "none" THEN acc
    ELSE SetupEach(SetupOne(acc, Head(sorted)), Tail(sorted))

\* setupPlugins: activate, validate dependencies, check conflicts, sort, set up
SetupPlugins(reg, options, acc) ==
    LET active == GetActivePlugins(reg, options)
        depError == ValidateDependencies(active)
        conflictError == CheckConflicts(active)
    IN IF depError.kind # "none" THEN [acc EXCEPT !.error = depError]
       ELSE IF conflictError.kind # "none" THEN [acc EXCEPT !.error = conflictError]
       ELSE SetupEach(acc, SortByPriority(active))

SortedPlugins(reg, options) == SortByPriority(GetActivePlugins(reg, options))

\* registerWatchers: plugin.registerWatchers(context) for each sorted plugin
RECURSIVE RegisterWatchers(_, _)
RegisterWatchers(acc, sorted) ==
    IF sorted = <<>> THEN acc
    ELSE RegisterWatchers(
            IF HasRegisterWatchers(Head(sorted).name)
            THEN Logged(acc, Event("watch", Head(sorted).name))
            ELSE acc,
            Tail(sorted))

\* buildAPI: plugin.contributeToAPI(systems) for each sorted plugin
RECURSIVE BuildAPI(_, _)
BuildAPI(acc, sorted) ==
    IF sorted = <<>> THEN acc
    ELSE BuildAPI(
            IF HasContributeToAPI(Head(sorted).name)
            THEN Logged(acc, Event("api", Head(sorted).name))
            ELSE acc,
            Tail(sorted))

\* useAnimation step 2/3: the orchestrator callbacks stored in sharedData
OrchestratorCallbacks ==
    {<<"orchestrator", k>> : k \in {"play", "pause", "stop", "resume"}}

SeedCallbacks(acc) ==
    [Logged(acc, Event("seed", "orchestrator"))
        EXCEPT !.exchange = acc.exchange \cup OrchestratorCallbacks]

(***************************************************************************)
(* useAnimation(target, options): construction of one session              *)
(*   options.values    : value under each plugin's option key              *)
(*   options.stateName : whether options.stateName is given                *)
(***************************************************************************)
ConsumerId == 1

OptionValues == {"undefined", "object"}

OptionSpace ==
    {[values |-> v, stateName |-> n] : v \in [NameSet -> OptionValues], n \in BOOLEAN}

\* variant: the watchers are registered before the callbacks are stored
Construction_WatchFirst(reg, options, c) ==
    LET start == [log |-> <<>>,
                  seen |-> <<>>,
                  exchange |-> {<<"orchestrator", "setCSSVar">>,
                                <<"orchestrator", "unsetCSSVar">>},
                  clock |-> c,
                  timers |-> [n \in NameSet |-> Null],
                  error |-> NoError]
        setup == SetupPlugins(reg, options, start)
        sorted == SortedPlugins(reg, options)
    IN IF setup.error.kind # "none" THEN setup
       ELSE BuildAPI(SeedCallbacks(RegisterWatchers(setup, sorted)), sorted)

\* the construction up to its end or to the error thrown out of setupPlugins
Construction(reg, options, c) ==
    LET start == [log |-> <<>>,
                  seen |-> <<>>,
                  exchange |-> {<<"orchestrator", "setCSSVar">>,
                                <<"orchestrator", "unsetCSSVar">>},
                  clock |-> c,
                  timers |-> [n \in NameSet |-> Null],
                  error |-> NoError]
        setup == SetupPlugins(reg, options, start)
        sorted == SortedPlugins(reg, options)
    IN IF setup.error.kind # "none" THEN setup
       ELSE BuildAPI(RegisterWatchers(SeedCallbacks(setup), sorted), sorted)

UseAnimation(options) ==
    /\ construct.result = "none"
    /\ \E end \in {Construction(registry, options, clock)} :
          /\ clock' = end.clock
          /\ construct' =
                [result |-> IF end.error.kind # "none" THEN "threw" ELSE "ok",
                 error |-> end.error,
                 options |-> options,
                 log |-> end.log,
                 seen |-> end.seen,
                 exchange |-> end.exchange,
                 timers |-> end.timers,
                 \* stateConsumers.get(stateName).add(consumerId), before setupPlugins
                 consumers |-> IF options.stateName THEN {ConsumerId} ELSE {}]
    /\ UNCHANGED <<timers, step, registry, session>>

(***************************************************************************)
(* Registries checked: three plugins registered in the order a, b, c, with *)
(* any priorities.  A registry has at most MaxFeatures of: a requires      *)
(* entry, a conflicts entry, a plugin whose setup throws, a plugin whose   *)
(* setup subscribes to the clock.                                          *)
(***************************************************************************)
MaxFeatures == 2

Priorities == {NoPriority, DefaultPriority, 100}

NoEdge == [plugin |-> "", entry |-> <<>>]

RequireKeys(x) ==
    {<<y>> : y \in NameSet \ {x}} \cup {<<y, "scale">> : y \in NameSet \ {x}}

RequireChoices ==
    {NoEdge} \cup
    UNION {{[plugin |-> x, entry |-> <<k>>] : k \in RequireKeys(x)} : x \in NameSet}

ConflictChoices ==
    {NoEdge} \cup
    {e \in {[plugin |-> x, entry |-> <<y>>] : x \in NameSet, y \in NameSet} :
        e.entry[1] # e.plugin}

KindChoices == [NameSet -> {"plain", "raf", "throws"}]

Features(req, con, kinds) ==
    (IF req = NoEdge THEN 0 ELSE 1) + (IF con = NoEdge THEN 0 ELSE 1)
    + Cardinality({n \in NameSet : kinds[n] # "plain"})

MakeRegistry(prio, req, con, kinds) ==
    [i \in 1..Len(PluginNames) |->
        [name |-> PluginNames[i],
         priority |-> prio[PluginNames[i]],
         requires |-> IF req.plugin = PluginNames[i] THEN req.entry ELSE <<>>,
         conflicts |-> IF con.plugin = PluginNames[i] THEN con.entry ELSE <<>>,
         kind |-> kinds[PluginNames[i]],
         version |-> 1,
         cleanupPriority |-> NoPriority,
         shouldActivate |-> "none",
         optionsKey |-> ""]]

RegistrySpace ==
    {MakeRegistry(prio, rck[1], rck[2], rck[3]) :
        prio \in [NameSet -> Priorities],
        rck \in {x \in RequireChoices \X ConflictChoices \X KindChoices :
                    Features(x[1], x[2], x[3]) <= MaxFeatures}}

RegistrySpecInit ==
    /\ clock = ClockInit
    /\ timers = [t \in Timers |-> Null]
    /\ step = StepInit
    /\ registry \in RegistrySpace
    /\ construct = [result |-> "none"]
    /\ session = [made |-> FALSE]

RegistryNext == \E options \in OptionSpace : UseAnimation(options)

SpecRegistry == RegistrySpecInit /\ [][RegistryNext]_vars

(***************************************************************************)
(* getCleanupOrder(plugins), called on descriptors with any priorities and *)
(* cleanup priorities                                                      *)
(***************************************************************************)
CleanupPriorities == {NoPriority, 40, 100}

CleanupRegistrySpace ==
    {[i \in 1..Len(PluginNames) |->
        [name |-> PluginNames[i],
         priority |-> prio[PluginNames[i]],
         cleanupPriority |-> cprio[PluginNames[i]]]] :
        prio \in [NameSet -> Priorities], cprio \in [NameSet -> CleanupPriorities]}

\* the descriptors at the given positions, in registration order
Selected(reg, members) == SelectSeq(reg, LAMBDA p : p.name \in members)

\* a caller passes some of the plugins to getCleanupOrder; the model keeps
\* what it passed, the setup order of the same plugins and what came back
GetCleanupOrderCall(members) ==
    /\ construct.result = "none"
    /\ construct' = [result |-> "order",
                     plugins |-> Selected(registry, members),
                     setupOrder |-> SortByPriority(Selected(registry, members)),
                     cleanupOrder |-> GetCleanupOrder(Selected(registry, members))]
    /\ UNCHANGED <<clock, timers, step, registry, session>>

CleanupOrderSpecInit ==
    /\ clock = ClockInit
    /\ timers = [t \in Timers |-> Null]
    /\ step = StepInit
    /\ registry \in CleanupRegistrySpace
    /\ construct = [result |-> "none"]
    /\ session = [made |-> FALSE]

CleanupOrderNext == \E members \in SUBSET NameSet : GetCleanupOrderCall(members)

SpecCleanupOrder == CleanupOrderSpecInit /\ [][CleanupOrderNext]_vars

(***************************************************************************)
(* Activation: sessions constructed over plugins with or without a         *)
(* shouldActivate predicate and an optionsKey, with any kind of value      *)
(* under each option key                                                   *)
(***************************************************************************)
\* values a configuration can hold under a key: absent, null, the booleans,
\* the number 0, the empty string, an options object
AnyOptionValues == {"undefined", "null", "false", "true", "zero", "empty", "object"}

AnyOptionSpace ==
    {[values |-> v, stateName |-> FALSE] : v \in [NameSet -> AnyOptionValues]}

PredicateChoices == {"none", "true", "false"}

\* a descriptor with no dependencies, no conflicts and a setup that returns
PlainPlugin(name, version, kind, predicate, key) ==
    [name |-> name, version |-> version, priority |-> NoPriority,
     requires |-> <<>>, conflicts |-> <<>>, kind |-> kind,
     cleanupPriority |-> NoPriority, shouldActivate |-> predicate, optionsKey |-> key]

\* a declares a predicate or an optionsKey naming b's key, b declares a
\* predicate or nothing, c declares nothing
ActivationRegistrySpace ==
    {<<PlainPlugin("a", 1, "plain", pa, ka), PlainPlugin("b", 1, "plain", pb, ""),
       PlainPlugin("c", 1, "plain", "none", "")>> :
        pa \in PredicateChoices, ka \in {"", "b"}, pb \in PredicateChoices}

ActivationSpecInit ==
    /\ clock = ClockInit
    /\ timers = [t \in Timers |-> Null]
    /\ step = StepInit
    /\ registry \in ActivationRegistrySpace
    /\ construct = [result |-> "none"]
    /\ session = [made |-> FALSE]

ActivationNext == \E options \in AnyOptionSpace : UseAnimation(options)

SpecActivation == ActivationSpecInit /\ [][ActivationNext]_vars

(***************************************************************************)
(* register(plugin): a registry filled by register calls, then used by a   *)
(* session.  session.calls counts the register calls, session.threw tells  *)
(* whether the last one threw, session.latest keeps for each name the      *)
(* descriptor of the last register call that returned.                     *)
(***************************************************************************)
MaxRegisters == 3

RegisterNames == {"a", "b"}

NoPlugin == [name |-> ""]

\* descriptors passed to register: version 0 stands for a missing version
RegisterSpace ==
    {PlainPlugin(n, v, k, "none", "") :
        n \in RegisterNames, v \in {0, 1, 2}, k \in {"plain", "raf"}}

\* !plugin.name || !plugin.version || !plugin.setup
IsInvalidPlugin(p) == p.name = "" \/ p.version = 0

\* this.plugins.has(name)
HasPlugin(reg, name) == \E i \in 1..Len(reg) : reg[i].name = name

\* Map.set: a new key goes to the end, an existing key keeps its position
\* variant: an existing key keeps its value
MapSet_KeepFirst(reg, p) ==
    IF HasPlugin(reg, p.name) THEN reg ELSE Append(reg, p)

MapSet(reg, p) ==
    IF HasPlugin(reg, p.name)
    THEN [i \in 1..Len(reg) |-> IF reg[i].name = p.name THEN p ELSE reg[i]]
    ELSE Append(reg, p)

Register(p) ==
    /\ construct.result = "none"
    /\ session.calls < MaxRegisters
    /\ IF IsInvalidPlugin(p)
       THEN /\ registry' = registry
            /\ session' = [session EXCEPT !.calls = @ + 1, !.threw = TRUE]
       ELSE /\ registry' = MapSet(registry, p)
            /\ session' = [session EXCEPT !.calls = @ + 1, !.threw = FALSE,
                                          !.latest[p.name] = p]
    /\ UNCHANGED <<clock, timers, step, construct>>

RegisterSpecInit ==
    /\ clock = ClockInit
    /\ timers = [t \in Timers |-> Null]
    /\ step = StepInit
    /\ registry = <<>>
    /\ construct = [result |-> "none"]
    /\ session = [made |-> FALSE, calls |-> 0, threw |-> FALSE,
                  latest |-> [n \in RegisterNames |-> NoPlugin]]

RegisterNext ==
    \/ \E p \in RegisterSpace : Register(p)
    \/ \E options \in OptionSpace : UseAnimation(options)

SpecRegister == RegisterSpecInit /\ [][RegisterNext]_vars

RegistryIdle == <<>>
ConstructIdle == [result |-> "none"]
SessionIdle == [made |-> FALSE]

ClockSpecInit ==
    /\ clock = ClockInit
    /\ timers = [t \in Timers |-> Null]
    /\ step = StepInit
    /\ registry = RegistryIdle
    /\ construct = ConstructIdle
    /\ session = SessionIdle

ClockNext ==
    \/ \E t \in Timers : Resume(t)
    \/ \E t \in Timers : Pause(t)
    \/ \E r \in clock.pending : FrameFires(r)
    \/ StepInvoke
    \/ StepEnd

SpecClock == ClockSpecInit /\ [][ClockNext]_vars

(***************************************************************************)
(* Orchestrator session: the lifecycle closures of useAnimation            *)
(*   session.mods            : names of the playable systems, in systems   *)
(*                             (setup) order                               *)
(*   session.canAnimate      : context.canAnimate                          *)
(*   session.playWhen        : "undefined", "true" or "false"              *)
(*   session.isPlaying, isPaused, manualOverride : as in the code          *)
(*   session.atBeforePlay    : runPlay calls suspended at                  *)
(*                             `await safeCallAsync(beforePlay)`           *)
(*   session.atModules       : runPlay calls suspended at                  *)
(*                             `await Promise.all(...play())`              *)
(*   session.cssRunning      : the CSS animation classes are applied and   *)
(*                             animationend is still to come               *)
(*   session.timelineRunning : timelineRaf is subscribed to the clock      *)
(*   session.counts          : how often the beforePlay hook, the modules' *)
(*                             play and the afterPlay hook ran             *)
(*   session.op, trace       : the last operation and the hook and module  *)
(*                             calls it made                               *)
(*   session.lastExplicit    : the caller's last explicit play()/stop()    *)
(*                             since playWhen last changed                 *)
(*   session.onlyPlays       : no operation other than play() has run      *)
(***************************************************************************)
MaxPlays == 2       \* runPlay calls that get past the guards in one behaviour
MaxCleanups == 2    \* cleanup() calls in one behaviour

ModuleSets == {<<"webAnimation">>, <<"webAnimation", "cssAnimation">>,
               <<"webAnimation", "timeline">>}

HasModule(s, m) == m \in Range(s.mods)

Called(s, call) == [s EXCEPT !.trace = Append(s.trace, call)]

\* system.play() of each playable system, in order (the synchronous part)
PlayModule(s, m) ==
    CASE m = "cssAnimation" ->
            IF ~s.canAnimate
            THEN [s EXCEPT !.isPlaying = FALSE, !.isPaused = FALSE]
            ELSE [s EXCEPT !.cssRunning = TRUE, !.isPlaying = TRUE, !.isPaused = FALSE]
      [] m = "timeline" ->
            [s EXCEPT !.isPlaying = TRUE, !.timelineRunning = TRUE]
      [] OTHER -> s

\* system.stop() of each stoppable system
StopModule(s, m) ==
    CASE m = "cssAnimation" ->
            [s EXCEPT !.cssRunning = FALSE, !.isPlaying = FALSE, !.isPaused = FALSE]
      [] m = "timeline" ->
            [s EXCEPT !.timelineRunning = FALSE, !.isPlaying = FALSE]
      [] OTHER -> s

\* system.pause() of each pausable system
PauseModule(s, m) ==
    CASE m = "cssAnimation" ->
            IF s.isPlaying THEN [s EXCEPT !.isPaused = TRUE] ELSE s
      [] m = "timeline" ->
            [s EXCEPT !.timelineRunning = FALSE, !.isPaused = TRUE]
      [] OTHER -> s

\* system.resume() of each resumable system
ResumeModule(s, m) ==
    CASE m = "cssAnimation" ->
            IF s.isPaused /\ s.isPlaying THEN [s EXCEPT !.isPaused = FALSE] ELSE s
      [] m = "timeline" ->
            IF ~s.isPaused THEN s
            ELSE [s EXCEPT !.isPaused = FALSE, !.timelineRunning = TRUE]
      [] OTHER -> s

\* system.cleanup() of each cleanable system: the timeline and the CSS
\* animation call their own stop() and drop their timer or listeners
CleanupModule(s, m) == StopModule(s, m)

\* s.play!() / s.stop!() / s.pause!() / s.resume!() / s.cleanup!() of one
\* module system
ModuleCall(s, call, m) ==
    CASE call = "play" -> PlayModule(s, m)
      [] call = "stop" -> StopModule(s, m)
      [] call = "pause" -> PauseModule(s, m)
      [] call = "resume" -> ResumeModule(s, m)
      [] call = "cleanup" -> CleanupModule(s, m)

RECURSIVE ForEachModule(_, _, _)
ForEachModule(s, mods, call) ==
    IF mods = <<>> THEN s
    ELSE ForEachModule(Called(ModuleCall(s, call, Head(mods)), <<call, Head(mods)>>),
                       Tail(mods), call)

\* safeCall / safeCallAsync: calls the caller's hook inside try/catch
\* variant: the catch block rethrows
SafeCall_Rethrow(s, hook) ==
    LET called == Called(s, <<"hook", hook>>)
    IN IF hook \in s.throwing THEN [called EXCEPT !.escaped = TRUE] ELSE called

SafeCall(s, hook) ==
    LET called == Called(s, <<"hook", hook>>)
    IN IF hook \in s.throwing THEN Called(called, <<"caught", hook>>) ELSE called

\* runPlay(reason) up to its first await
RunPlay(s, reason) ==
    IF reason = "auto" /\ s.manualOverride = "stop" THEN s
    ELSE IF s.isPlaying THEN s
    ELSE LET hooked == SafeCall([s EXCEPT !.manualOverride =
                                              IF reason = "manual" THEN "play" ELSE @,
                                          !.isPlaying = TRUE,
                                          !.isPaused = FALSE,
                                          !.counts.beforePlay = @ + 1],
                                "beforePlay")
         IN IF hooked.escaped THEN hooked
            ELSE [hooked EXCEPT !.atBeforePlay = @ + 1]

\* runPlay after the beforePlay hook settled, up to `await Promise.all`
RunPlayModules(s) ==
    LET resumed == SafeCall([s EXCEPT !.atBeforePlay = @ - 1], "onStart")
    IN IF resumed.escaped THEN resumed
       ELSE [ForEachModule(resumed, s.mods, "play")
                EXCEPT !.atModules = @ + 1, !.counts.modulePlay = @ + 1]

\* runPlay after the modules' play promises settled
RunPlayEnd(s) ==
    SafeCall([s EXCEPT !.atModules = @ - 1, !.counts.afterPlay = @ + 1], "afterPlay")

\* stop(reason)
\* variant: without the early return of a session that is neither playing nor paused
StopSession_NoIdleReturn(s, reason) ==
    IF reason = "auto" /\ s.manualOverride = "play" THEN s
    ELSE LET marked == [s EXCEPT !.manualOverride = IF reason = "manual" THEN "stop" ELSE @]
             before == SafeCall(marked, "beforeStop")
             stopped == ForEachModule(before, s.mods, "stop")
             after == SafeCall([stopped EXCEPT !.isPlaying = FALSE, !.isPaused = FALSE],
                               "afterStop")
         IN IF before.escaped THEN before
            ELSE IF after.escaped THEN after
            ELSE SafeCall(after, "onStop")

StopSession(s, reason) ==
    IF reason = "auto" /\ s.manualOverride = "play" THEN s
    ELSE IF ~s.isPlaying /\ ~s.isPaused THEN s
    ELSE LET marked == [s EXCEPT !.manualOverride = IF reason = "manual" THEN "stop" ELSE @]
             before == SafeCall(marked, "beforeStop")
             stopped == ForEachModule(before, s.mods, "stop")
             after == SafeCall([stopped EXCEPT !.isPlaying = FALSE, !.isPaused = FALSE],
                               "afterStop")
         IN IF before.escaped THEN before
            ELSE IF after.escaped THEN after
            ELSE SafeCall(after, "onStop")

\* pause()
\* variant: the guard does not look at the paused flag
PauseSession_NoPausedReturn(s) ==
    IF ~s.isPlaying THEN s
    ELSE LET before == SafeCall(s, "beforePause")
             paused == ForEachModule(before, s.mods, "pause")
         IN IF before.escaped THEN before
            ELSE SafeCall([paused EXCEPT !.isPaused = TRUE], "afterPause")

PauseSession(s) ==
    IF ~s.isPlaying \/ s.isPaused THEN s
    ELSE LET before == SafeCall(s, "beforePause")
             paused == ForEachModule(before, s.mods, "pause")
         IN IF before.escaped THEN before
            ELSE SafeCall([paused EXCEPT !.isPaused = TRUE], "afterPause")

\* resume()
ResumeSession(s) ==
    IF ~s.isPaused THEN s
    ELSE LET before == SafeCall(s, "beforeResume")
             resumed == ForEachModule(before, s.mods, "resume")
         IN IF before.escaped THEN before
            ELSE SafeCall([resumed EXCEPT !.isPaused = FALSE], "afterResume")

\* variant: the systems are cleaned up before the watchers are stopped
CleanupSession_WatchersLast(s) ==
    LET reset == [s EXCEPT !.isPlaying = FALSE, !.isPaused = FALSE]
        cleaned == ForEachModule(reset, s.mods, "cleanup")
        unwatched == Called(Called(cleaned, <<"stopWatchers", "plugin">>),
                            <<"stopWatchers", "local">>)
        handled == IF s.cleanups = 0 THEN Called(unwatched, <<"handlers", "cleanup">>)
                   ELSE unwatched
        released == IF s.consumers # {}
                    THEN Called([handled EXCEPT !.consumers = {}],
                                <<"release", "state">>)
                    ELSE handled
    IN [released EXCEPT !.cleanups = @ + 1]

\* cleanup(): flags reset, watchers stopped, every cleanable system cleaned
\* up in systems order, the cleanup handlers run and emptied, the consumer
\* removed from stateConsumers; context.sharedData is left as it is
CleanupSession(s) ==
    LET reset == [s EXCEPT !.isPlaying = FALSE, !.isPaused = FALSE]
        unwatched == Called(Called(reset, <<"stopWatchers", "plugin">>),
                            <<"stopWatchers", "local">>)
        cleaned == ForEachModule(unwatched, s.mods, "cleanup")
        handled == IF s.cleanups = 0 THEN Called(cleaned, <<"handlers", "cleanup">>)
                   ELSE cleaned
        released == IF s.consumers # {}
                    THEN Called([handled EXCEPT !.consumers = {}],
                                <<"release", "state">>)
                    ELSE handled
    IN [released EXCEPT !.cleanups = @ + 1]

\* playAuto: the orchestrator.play callback
PlayAutoSession(s) ==
    IF s.playWhen = "false" THEN s ELSE RunPlay(s, "auto")

\* the playWhen watcher callback, run with the new value of the condition
PlayWhenCallback(s, shouldPlay) ==
    LET reset == [s EXCEPT !.manualOverride = "null"]
    IN IF shouldPlay
       THEN IF ~reset.isPlaying /\ ~reset.isPaused THEN RunPlay(reset, "auto") ELSE reset
       ELSE IF reset.isPlaying THEN StopSession(reset, "auto") ELSE reset

\* start of an operation: names it and clears the record of its calls
Begin(s, op) == [s EXCEPT !.op = op, !.trace = <<>>]

\* the caller makes its lifecycle calls before it calls cleanup(); after
\* cleanup() only what is already suspended or subscribed goes on
InUse == session.made /\ session.cleanups = 0

NotOnlyPlays(s) == [s EXCEPT !.onlyPlays = FALSE]

CanStartPlay == session.counts.beforePlay < MaxPlays

Play ==
    /\ InUse
    /\ CanStartPlay
    /\ session' = [RunPlay(Begin(session, "play"), "manual") EXCEPT !.lastExplicit = "play"]
    /\ UNCHANGED <<clock, timers, step, registry, construct>>

PlayAuto ==
    /\ InUse
    /\ CanStartPlay
    /\ session' = NotOnlyPlays(PlayAutoSession(Begin(session, "playAuto")))
    /\ UNCHANGED <<clock, timers, step, registry, construct>>

BeforePlaySettles ==
    /\ session.made
    /\ session.atBeforePlay > 0
    /\ session' = RunPlayModules(Begin(session, "runPlay:modules"))
    /\ UNCHANGED <<clock, timers, step, registry, construct>>

ModulePlaysSettle ==
    /\ session.made
    /\ session.atModules > 0
    /\ session' = RunPlayEnd(Begin(session, "runPlay:end"))
    /\ UNCHANGED <<clock, timers, step, registry, construct>>

Stop ==
    /\ InUse
    /\ session' = [NotOnlyPlays(StopSession(Begin(session, "stop"), "manual"))
                     EXCEPT !.lastExplicit = "stop"]
    /\ UNCHANGED <<clock, timers, step, registry, construct>>

StopAuto ==
    /\ InUse
    /\ session' = NotOnlyPlays(StopSession(Begin(session, "stopAuto"), "auto"))
    /\ UNCHANGED <<clock, timers, step, registry, construct>>

PauseCall ==
    /\ InUse
    /\ session' = NotOnlyPlays(PauseSession(Begin(session, "pause")))
    /\ UNCHANGED <<clock, timers, step, registry, construct>>

ResumeCall ==
    /\ InUse
    /\ session' = NotOnlyPlays(ResumeSession(Begin(session, "resume")))
    /\ UNCHANGED <<clock, timers, step, registry, construct>>

\* the caller's playWhen condition changes value: the watcher fires
PlayWhenChanges ==
    /\ InUse                         \* the watcher has not been stopped
    /\ session.playWhen # "undefined"
    /\ CanStartPlay
    /\ LET now == IF session.playWhen = "true" THEN "false" ELSE "true"
       IN session' =
            [NotOnlyPlays(PlayWhenCallback(
                [Begin(session, "playWhen") EXCEPT !.playWhen = now], now = "true"))
             EXCEPT !.lastExplicit = "none"]
    /\ UNCHANGED <<clock, timers, step, registry, construct>>

\* cssAnimationPlugin onEnd: the animationend event of the target
CssAnimationEnd ==
    /\ session.made
    /\ session.cssRunning
    /\ ~session.isPaused
    /\ session' = NotOnlyPlays([Begin(session, "animationend")
                                  EXCEPT !.cssRunning = FALSE, !.isPlaying = FALSE])
    /\ UNCHANGED <<clock, timers, step, registry, construct>>

\* timelinePlugin: a tick completes the cycle of a timeline that does not loop
TimelineHalt ==
    /\ session.made
    /\ session.timelineRunning
    /\ session' = NotOnlyPlays([Begin(session, "timelineHalt")
                                  EXCEPT !.timelineRunning = FALSE, !.isPlaying = FALSE])
    /\ UNCHANGED <<clock, timers, step, registry, construct>>

\* cleanup(), called by the user or by onUnmounted
Cleanup ==
    /\ session.made
    /\ session.cleanups < MaxCleanups
    /\ session' = NotOnlyPlays(CleanupSession(Begin(session, "cleanup")))
    /\ UNCHANGED <<clock, timers, step, registry, construct>>

\* the lifecycle hooks and callbacks the caller can supply
Hooks == {"beforePlay", "afterPlay", "beforePause", "afterPause", "beforeStop",
          "afterStop", "beforeResume", "afterResume", "onStart", "onStop"}

\* the sets of hooks that throw, among the sessions checked
HookFaults == {{}, Hooks}

\* the sessions checked are given a stateName, so that cleanup() has a
\* consumer to release; a session without one skips that step
StateNameChoices == {TRUE}

\* context.sharedData of a constructed session: the orchestrator callbacks
\* and the system of every module
SessionExchange(mods) ==
    SeedCallbacks([log |-> <<>>,
                   exchange |-> {<<"orchestrator", "setCSSVar">>,
                                 <<"orchestrator", "unsetCSSVar">>}
                                \cup {SystemKey(m) : m \in Range(mods)}]).exchange

\* the session as useAnimation returns it; a playWhen watcher is created with
\* immediate: true and so has run once
NewSession(mods, canAnimate, playWhen, throwing, stateName) ==
    LET fresh == [made |-> TRUE, mods |-> mods, canAnimate |-> canAnimate,
                  playWhen |-> playWhen,
                  throwing |-> throwing, escaped |-> FALSE,
                  consumers |-> IF stateName THEN {ConsumerId} ELSE {},
                  exchange |-> SessionExchange(mods),
                  cleanups |-> 0,
                  isPlaying |-> FALSE, isPaused |-> FALSE, manualOverride |-> "null",
                  atBeforePlay |-> 0, atModules |-> 0,
                  cssRunning |-> FALSE, timelineRunning |-> FALSE,
                  counts |-> [beforePlay |-> 0, modulePlay |-> 0, afterPlay |-> 0],
                  op |-> "useAnimation", trace |-> <<>>,
                  lastExplicit |-> "none", onlyPlays |-> TRUE]
    IN IF playWhen = "undefined" THEN fresh
       ELSE PlayWhenCallback(fresh, playWhen = "true")

SessionSpecInit ==
    /\ clock = ClockInit
    /\ timers = [t \in Timers |-> Null]
    /\ step = StepInit
    /\ registry = <<>>
    /\ construct = [result |-> "none"]
    /\ \E mods \in ModuleSets, canAnimate \in BOOLEAN,
          playWhen \in {"undefined", "true", "false"},
          throwing \in HookFaults, stateName \in StateNameChoices :
            session = NewSession(mods, canAnimate, playWhen, throwing, stateName)

SessionNext ==
    \/ Play
    \/ PlayAuto
    \/ BeforePlaySettles
    \/ ModulePlaysSettle
    \/ Stop
    \/ StopAuto
    \/ PauseCall
    \/ ResumeCall
    \/ PlayWhenChanges
    \/ CssAnimationEnd
    \/ TimelineHalt
    \/ Cleanup

SpecSession == SessionSpecInit /\ [][SessionNext]_vars

(***************************************************************************)
(* calculateStaggerDelays(count, options)                                  *)
(* A delay is kept exact as the number num * sqrt(root) / den, so that the *)
(* halves of `count / 2`, `cols / 2` and the square root of the grid       *)
(* distance are not rounded.  options is [delay, from, ease, grid]; a      *)
(* field left out by the caller is "undefined", a grid left out is <<>>.   *)
(***************************************************************************)
Value(num, den, root) == [num |-> num, den |-> den, root |-> root]
Abs(x) == IF x < 0 THEN -x ELSE x
Times(v, k) == [v EXCEPT !.num = @ * k]

\* const { delay, from = 'start', ease = 'linear', grid } = options
FromOf(options) == IF options.from = "undefined" THEN "start" ELSE options.from
EaseOf(options) == IF options.ease = "undefined" THEN "linear" ELSE options.ease

\* the distance of element i (from 0) in a grid of cols columns
GridDistance(i, from, grid) ==
    LET cols == grid[1]
        rows == grid[2]
        col == i % cols
        row == i \div cols
    IN  IF from = "center"
        THEN Value(1, 2, (2 * col - cols) * (2 * col - cols)
                            + (2 * row - rows) * (2 * row - rows))
        ELSE IF from = "end"
        THEN Value((cols - col) + (rows - row), 1, 1)
        ELSE Value(col + row, 1, 1)

LinearPosition_EndFromCount(i, count, from) ==
    IF from = "start" THEN Value(i, 1, 1)
    ELSE IF from = "end" THEN Value(count - i, 1, 1)
    ELSE Value(Abs(2 * i - count), 2, 1)

\* the position of element i (from 0) in a list of count elements
LinearPosition(i, count, from) ==
    IF from = "start" THEN Value(i, 1, 1)
    ELSE IF from = "end" THEN Value(count - 1 - i, 1, 1)
    ELSE Value(Abs(2 * i - count), 2, 1)

\* easedT * delay * count, with t = position / (count - 1 || 1);
\* 1 - (1 - t)^2 is written 2t - t^2; any other ease leaves easedT = t
Eased(position, count, ease, delay) ==
    LET d == position.den * (IF count - 1 = 0 THEN 1 ELSE count - 1)
        n == position.num
    IN  IF ease = "ease-in" THEN Value(n * n * delay * count, d * d, 1)
        ELSE IF ease = "ease-out"
        THEN Value((2 * n * d - n * n) * delay * count, d * d, 1)
        ELSE Value(n * delay * count, d, 1)

LinearDelay(i, count, options) ==
    LET position == LinearPosition(i, count, FromOf(options))
    IN  IF EaseOf(options) # "linear"
        THEN Eased(position, count, EaseOf(options), options.delay)
        ELSE Times(position, options.delay)

\* delays[i + 1] is the delay pushed for element i
CalculateStaggerDelays(count, options) ==
    IF options.grid # <<>>
    THEN [k \in 1..count |->
             Times(GridDistance(k - 1, FromOf(options), options.grid), options.delay)]
    ELSE [k \in 1..count |-> LinearDelay(k - 1, count, options)]

\* Calls checked: up to MaxCount elements, the three documented origins,
\* the documented easings and two grids
MaxCount == 4
DelayChoices == {0, 50, 100}
FromChoices == {"undefined", "start", "end", "center"}
EaseChoices == {"undefined", "linear", "ease-in", "ease-out", "cubic-bezier"}
GridChoices == {<<>>, <<2, 2>>, <<3, 2>>}
StaggerOptionSpace ==
    [delay : DelayChoices, from : FromChoices, ease : EaseChoices, grid : GridChoices]

CalculateStaggerDelaysCall ==
    /\ construct.result = "input"
    /\ construct' = [result |-> "delays",
                     count |-> construct.count,
                     options |-> construct.options,
                     delays |-> CalculateStaggerDelays(construct.count, construct.options)]
    /\ UNCHANGED <<clock, timers, step, registry, session>>

DelaysSpecInit ==
    /\ clock = ClockInit
    /\ timers = [t \in Timers |-> Null]
    /\ step = StepInit
    /\ registry = RegistryIdle
    /\ construct \in [result : {"input"}, count : 0..MaxCount, options : StaggerOptionSpace]
    /\ session = SessionIdle

DelaysNext == CalculateStaggerDelaysCall

SpecDelays == DelaysSpecInit /\ [][DelaysNext]_vars

(***************************************************************************)
(* Starting one effect: staggerPlugin activateChild and timelinePlugin     *)
(* activatePhase under every environment.  A call is a record              *)
(*   module        : "stagger" or "timeline"                               *)
(*   reducedMotion, batteryOptimization, lowFps : the environment flags    *)
(*   keyframes     : options.keyframes: "undefined", a non-empty "array",  *)
(*                   an "empty" array or an "object" of property lists     *)
(*   preset        : options.preset: "undefined", a "known" preset name or *)
(*                   an "unknown" one                                      *)
(*   animation     : the phase has an animation (timeline)                 *)
(*   targets       : the phase's target resolves to an element (timeline)  *)
(* and the outcome is what happened to the target: "endState" (the last    *)
(* keyframe was assigned to its style), "animate" (an animation was        *)
(* started) or "none".                                                     *)
(***************************************************************************)
CanAnimate(env) == ~env.reducedMotion /\ ~env.batteryOptimization /\ ~env.lowFps

AnimationQuality(env) ==
    IF env.reducedMotion THEN "none"
    ELSE IF env.batteryOptimization THEN "low"
    ELSE IF env.lowFps THEN "medium"
    ELSE "high"

\* options.keyframes || animationPresets[options.preset || 'fadeIn']?.keyframes
ResolveKeyframes(call) ==
    IF call.keyframes # "undefined" THEN call.keyframes
    ELSE IF call.preset = "unknown" THEN "undefined"
    ELSE "array"

ActivateChild(call) ==
    IF ~CanAnimate(call) \/ AnimationQuality(call) = "none"
    THEN IF ResolveKeyframes(call) = "array"
         THEN [effect |-> "endState", started |-> TRUE]
         ELSE [effect |-> "none", started |-> TRUE]
    ELSE [effect |-> "animate", started |-> TRUE]

ActivatePhase(call) ==
    IF ~call.targets THEN [effect |-> "none", started |-> FALSE]
    ELSE IF call.animation /\ ~CanAnimate(call)
    THEN [effect |-> "none", started |-> TRUE]
    ELSE IF call.animation THEN [effect |-> "animate", started |-> TRUE]
    ELSE [effect |-> "none", started |-> TRUE]

KeyframeChoices == {"undefined", "array", "empty", "object"}
PresetChoices == {"undefined", "known", "unknown"}
EffectCallSpace ==
    [result : {"call"}, module : {"stagger", "timeline"},
     reducedMotion : BOOLEAN, batteryOptimization : BOOLEAN, lowFps : BOOLEAN,
     keyframes : KeyframeChoices, preset : PresetChoices,
     animation : BOOLEAN, targets : BOOLEAN]

Activated(call, outcome) ==
    [call EXCEPT !.result = "activated"] @@ outcome

ActivateChildCall ==
    /\ construct.result = "call"
    /\ construct.module = "stagger"
    /\ construct' = Activated(construct, ActivateChild(construct))
    /\ UNCHANGED <<clock, timers, step, registry, session>>

ActivatePhaseCall ==
    /\ construct.result = "call"
    /\ construct.module = "timeline"
    /\ construct' = Activated(construct, ActivatePhase(construct))
    /\ UNCHANGED <<clock, timers, step, registry, session>>

EffectSpecInit ==
    /\ clock = ClockInit
    /\ timers = [t \in Timers |-> Null]
    /\ step = StepInit
    /\ registry = RegistryIdle
    /\ construct \in EffectCallSpace
    /\ session = SessionIdle

EffectNext == ActivateChildCall \/ ActivatePhaseCall

SpecEffect == EffectSpecInit /\ [][EffectNext]_vars

(***************************************************************************)
(* Stagger sequencer: staggerPlugin's system driven by the orchestrator    *)
(* and by the frames of the shared clock.  The record kept in `session` is *)
(*   count, options   : elements.value.length and the stagger options      *)
(*   now              : performance.now(), also the timestamp of a frame   *)
(*   startTime, activatedIndices : staggerState                            *)
(*   pausedAt, totalPausedTime   : the pause tracking                      *)
(*   subscribed       : staggerRaf holds a subscription to the clock       *)
(*   activeAnimations : indices whose animation handle is kept             *)
(*   atNextTick, atTimeout : trigger() calls suspended at                  *)
(*                      `await nextTick()` and at the 16 ms timeout        *)
(*   finishPending    : the animation of the last element is running and   *)
(*                      its 'finish' listener is still to be called        *)
(*   loopTimer        : the loop timeout (staggerLoopTimeoutId) is pending *)
(*   isPlaying, isPaused : the orchestrator's flags, which guard its calls *)
(*   run              : what happened since the activation bookkeeping     *)
(*                      was last reset: activations[i] counts the          *)
(*                      activateChild calls for index i, firstTick is the  *)
(*                      timestamp of the first frame (Null before it),     *)
(*                      paused tells whether pause() was called, unpaused  *)
(*                      is the time that passed since the first frame      *)
(*                      while the session was not paused, triggered tells  *)
(*                      whether the reset was the one of trigger()         *)
(* Times are in units of the base delay.                                   *)
(***************************************************************************)
MaxTargets == 2
MaxTime == 3
MaxPending == 1

\* elapsed >= activationTime, for a delay num * sqrt(root) / den that is
\* not negative
AtLeast(elapsed, delay) ==
    /\ elapsed >= 0
    /\ elapsed * delay.den * elapsed * delay.den >= delay.num * delay.num * delay.root

NewRun(count, triggered) ==
    [activations |-> [i \in 0..(count - 1) |-> 0], firstTick |-> Null, paused |-> FALSE,
     unpaused |-> 0, triggered |-> triggered]

\* elementList.forEach in the frame callback, from index i on
RECURSIVE ActivateFrom(_, _, _, _)
ActivateFrom(s, i, elapsed, delays) ==
    IF i >= s.count THEN s
    ELSE ActivateFrom(
            IF AtLeast(elapsed, delays[i + 1]) /\ i \notin s.activatedIndices
            THEN [s EXCEPT !.activatedIndices = @ \cup {i},
                           !.activeAnimations = @ \cup {i},
                           !.finishPending = IF i = s.count - 1 THEN TRUE ELSE @,
                           !.run.activations[i] = @ + 1]
            ELSE s,
            i + 1, elapsed, delays)

StaggerFrame_KeepSubscribed(s, timestamp) ==
    IF s.count = 0 THEN [s EXCEPT !.subscribed = FALSE]
    ELSE LET started == [s EXCEPT !.startTime = IF @ = 0 THEN timestamp ELSE @,
                                  !.run.firstTick = IF @ = Null THEN timestamp ELSE @]
             elapsed == (timestamp - started.startTime) - s.totalPausedTime
         IN ActivateFrom(started, 0, elapsed, CalculateStaggerDelays(s.count, s.options))

\* the frame callback of staggerRaf
StaggerFrame(s, timestamp) ==
    IF s.count = 0 THEN [s EXCEPT !.subscribed = FALSE]
    ELSE LET started == [s EXCEPT !.startTime = IF @ = 0 THEN timestamp ELSE @,
                                  !.run.firstTick = IF @ = Null THEN timestamp ELSE @]
             elapsed == (timestamp - started.startTime) - s.totalPausedTime
             checked == ActivateFrom(started, 0, elapsed,
                                     CalculateStaggerDelays(s.count, s.options))
         IN IF Cardinality(checked.activatedIndices) >= s.count
            THEN [checked EXCEPT !.subscribed = FALSE, !.startTime = 0]
            ELSE checked

\* trigger() up to `await nextTick()`
TriggerStart(s) ==
    [s EXCEPT !.activeAnimations = {}, !.finishPending = FALSE, !.atNextTick = @ + 1]

\* the reset at the end of trigger() and staggerRaf.resume()
TriggerReset(s) ==
    [s EXCEPT !.startTime = 0, !.activatedIndices = {}, !.totalPausedTime = 0,
              !.pausedAt = 0, !.subscribed = TRUE, !.run = NewRun(s.count, TRUE)]

\* trigger() after nextTick: no elements, return; with resetOnRestart wait
\* for the 16 ms timeout, else reset and subscribe at once
TriggerAfterNextTick(s) ==
    LET resumed == [s EXCEPT !.atNextTick = @ - 1]
    IN IF s.count = 0 THEN resumed
       ELSE IF s.options.resetOnRestart THEN [resumed EXCEPT !.atTimeout = @ + 1]
       ELSE TriggerReset(resumed)

TriggerAfterTimeout(s) == TriggerReset([s EXCEPT !.atTimeout = @ - 1])

\* system.stop(): unsubscribe, cancel the animations, reset the state
StaggerStop(s) ==
    [s EXCEPT !.loopTimer = FALSE, !.finishPending = FALSE,
              !.subscribed = FALSE, !.activeAnimations = {}, !.startTime = 0,
              !.activatedIndices = {}, !.run = NewRun(s.count, FALSE)]

\* system.pause()
StaggerPause(s) ==
    [s EXCEPT !.pausedAt = s.now, !.subscribed = FALSE, !.loopTimer = FALSE,
              !.run.paused = TRUE]

\* system.resume()
StaggerResume(s) ==
    LET counted == IF s.pausedAt > 0
                   THEN [s EXCEPT !.totalPausedTime = @ + (s.now - s.pausedAt),
                                  !.pausedAt = 0]
                   ELSE s
    IN [counted EXCEPT !.subscribed = TRUE]

\* the 'finish' listener of the last element's animation
AnimationFinish(s) ==
    LET finished == [s EXCEPT !.finishPending = FALSE]
    IN IF s.options.loop /\ s.isPlaying THEN [finished EXCEPT !.loopTimer = TRUE]
       ELSE finished

\* the callback of the loop timeout
LoopTimeout(s) ==
    LET fired == [s EXCEPT !.loopTimer = FALSE]
    IN IF s.isPlaying THEN TriggerStart(fired) ELSE fired

\* a frame of the shared clock reaches the subscribed sequencer
StaggerTick ==
    /\ session.subscribed
    /\ session' = [StaggerFrame(session, session.now) EXCEPT !.op = "tick"]
    /\ UNCHANGED <<clock, timers, step, registry, construct>>

TimePasses ==
    /\ session.now < MaxTime
    /\ session' = [session EXCEPT !.now = @ + 1, !.op = "time",
                                  !.run.unpaused =
                                      IF session.run.firstTick # Null /\ ~session.isPaused
                                      THEN @ + 1 ELSE @]
    /\ UNCHANGED <<clock, timers, step, registry, construct>>

\* play() of the orchestrator, or triggerStagger() of the API
StaggerPlay ==
    /\ session.atNextTick + session.atTimeout < MaxPending
    /\ session' = [TriggerStart(session) EXCEPT !.isPlaying = TRUE, !.isPaused = FALSE,
                                                !.op = "play"]
    /\ UNCHANGED <<clock, timers, step, registry, construct>>

AnimationFinishes ==
    /\ session.finishPending
    /\ session' = [AnimationFinish(session) EXCEPT !.op = "finish"]
    /\ UNCHANGED <<clock, timers, step, registry, construct>>

LoopTimerFires ==
    /\ session.loopTimer
    /\ session.atNextTick + session.atTimeout < MaxPending
    /\ session' = [LoopTimeout(session) EXCEPT !.op = "loop"]
    /\ UNCHANGED <<clock, timers, step, registry, construct>>

NextTickSettles ==
    /\ session.atNextTick > 0
    /\ session' = [TriggerAfterNextTick(session) EXCEPT !.op = "trigger:nextTick"]
    /\ UNCHANGED <<clock, timers, step, registry, construct>>

ResetTimeoutFires ==
    /\ session.atTimeout > 0
    /\ session' = [TriggerAfterTimeout(session) EXCEPT !.op = "trigger:timeout"]
    /\ UNCHANGED <<clock, timers, step, registry, construct>>

\* pause() of the orchestrator: only while playing and not paused
StaggerPauseCall ==
    /\ session.isPlaying /\ ~session.isPaused
    /\ session' = [StaggerPause(session) EXCEPT !.isPaused = TRUE, !.op = "pause"]
    /\ UNCHANGED <<clock, timers, step, registry, construct>>

\* resume() of the orchestrator: only while paused
StaggerResumeCall ==
    /\ session.isPaused
    /\ session' = [StaggerResume(session) EXCEPT !.isPaused = FALSE, !.op = "resume"]
    /\ UNCHANGED <<clock, timers, step, registry, construct>>

\* stop() of the orchestrator: only while playing or paused
StaggerStopCall ==
    /\ session.isPlaying \/ session.isPaused
    /\ session' = [StaggerStop(session) EXCEPT !.isPlaying = FALSE, !.isPaused = FALSE,
                                               !.op = "stop"]
    /\ UNCHANGED <<clock, timers, step, registry, construct>>

\* the sequencers checked: linear staggers from each origin
StaggerRunOptions ==
    [delay : {1}, from : {"start", "end", "center"}, ease : {"linear"},
     grid : {<<>>}, resetOnRestart : BOOLEAN, loop : BOOLEAN]

NewStagger(count, options) ==
    [made |-> TRUE, count |-> count, options |-> options, now |-> 1,
     startTime |-> 0, activatedIndices |-> {}, pausedAt |-> 0, totalPausedTime |-> 0,
     subscribed |-> FALSE, activeAnimations |-> {}, atNextTick |-> 0, atTimeout |-> 0,
     finishPending |-> FALSE, loopTimer |-> FALSE, isPlaying |-> FALSE, isPaused |-> FALSE,
     run |-> NewRun(count, FALSE), op |-> "setup"]

StaggerSpecInit ==
    /\ clock = ClockInit
    /\ timers = [t \in Timers |-> Null]
    /\ step = StepInit
    /\ registry = RegistryIdle
    /\ construct = ConstructIdle
    /\ \E count \in 0..MaxTargets, options \in StaggerRunOptions :
          session = NewStagger(count, options)

StaggerNext ==
    \/ StaggerPlay
    \/ NextTickSettles
    \/ ResetTimeoutFires
    \/ StaggerTick
    \/ AnimationFinishes
    \/ LoopTimerFires
    \/ TimePasses
    \/ StaggerPauseCall
    \/ StaggerResumeCall
    \/ StaggerStopCall

SpecStagger == StaggerSpecInit /\ [][StaggerNext]_vars

\* the same machine under the browser's scheduling: a subscribed callback gets
\* its frame, a settled promise and a timeout run their continuation, a
\* running animation finishes, and a paused session is resumed; a callback
\* that is subscribed again and again gets a frame
StaggerFairness ==
    /\ SF_vars(StaggerTick)
    /\ WF_vars(NextTickSettles)
    /\ WF_vars(ResetTimeoutFires)
    /\ WF_vars(AnimationFinishes)
    /\ WF_vars(LoopTimerFires)
    /\ WF_vars(StaggerResumeCall)

SpecStaggerLive == StaggerSpecInit /\ [][StaggerNext]_vars /\ StaggerFairness

(***************************************************************************)
(* Timeline machine: the system of timelinePlugin under the orchestrator   *)
(* of a session whose only time-based module it is                         *)
(*   session.options        : phases (list of [delay, duration, target]),  *)
(*                            cycleDuration, loop, loopDelay               *)
(*   session.now            : the time of day; a frame's timestamp         *)
(*   session.startTime, delayStartTime, isInDelay : timelineState          *)
(*   session.currentCycle   : the cycle counter                            *)
(*   session.phaseStates    : started / completed of each phase; <<>> is   *)
(*                            the empty Map before the first play()        *)
(*   session.subscribed     : timelineRaf is subscribed to the clock       *)
(*   session.isPlaying, isPaused : the flags of the context                *)
(*   session.atBeforePlay   : runPlay calls suspended at their first await *)
(*   session.op, fired, elapsed : the last operation, the callbacks it     *)
(*                            fired in order, the elapsed time it computed *)
(*   session.counts         : start / completion callbacks of each phase   *)
(*                            since the phase states were last reset       *)
(*   session.halted         : the cycle halted and no play() came since    *)
(*   session.since          : "halt" after a halt, "replay" once play()    *)
(*                            restarted the halted timeline, until a tick  *)
(*   session.active         : time since the cycle's start time was set,   *)
(*                            not counting the time spent paused and       *)
(*                            unsubscribed                                 *)
(*   session.completedAt    : when the last cycle of a looping timeline    *)
(*                            completed, until stop()                      *)
(* onProgress reports and the phases' animations are left out.             *)
(***************************************************************************)
MaxClock == 4        \* the time of day runs from 1 to MaxClock
MaxCycles == 2       \* cycles a looping timeline starts in one behaviour
Never == -1          \* no elapsed time computed, no cycle completed

Phase(delay, duration, target) ==
    [delay |-> delay, duration |-> duration, target |-> target]

Fired(s, event) == [s EXCEPT !.fired = Append(@, event)]

\* initializePhaseStates
InitializePhaseStates(s) ==
    [s EXCEPT !.phaseStates = [i \in 1..Len(s.options.phases) |->
                                  [started |-> FALSE, completed |-> FALSE]],
              !.counts = [i \in 1..Len(s.options.phases) |->
                                  [start |-> 0, complete |-> 0]]]

\* resetTimeline
ResetTimeline(s) ==
    [InitializePhaseStates(s) EXCEPT !.startTime = 0, !.isInDelay = FALSE]

\* activatePhase(phase, elapsed) for the phase at position i
\* variant: without the started guard
ActivatePhaseAt_NoStartedGuard(s, i, elapsed) ==
    IF i > Len(s.phaseStates) THEN s
    ELSE IF ~s.options.phases[i].target THEN s
    ELSE Fired([s EXCEPT !.phaseStates[i].started = TRUE,
                         !.counts[i].start = @ + 1], <<"start", i>>)

ActivatePhaseAt(s, i, elapsed) ==
    IF i > Len(s.phaseStates) \/ s.phaseStates[i].started THEN s
    ELSE IF ~s.options.phases[i].target THEN s
    ELSE Fired([s EXCEPT !.phaseStates[i].started = TRUE,
                         !.counts[i].start = @ + 1], <<"start", i>>)

\* updatePhaseProgress(phase, elapsed) for the phase at position i
UpdatePhaseProgress(s, i, elapsed) ==
    IF i > Len(s.phaseStates) THEN s
    ELSE IF ~s.phaseStates[i].started \/ s.phaseStates[i].completed THEN s
    ELSE IF elapsed - s.options.phases[i].delay >= s.options.phases[i].duration
         THEN Fired([s EXCEPT !.phaseStates[i].completed = TRUE,
                              !.counts[i].complete = @ + 1], <<"complete", i>>)
         ELSE s

\* phases.value.forEach(...) of the frame callback, from position i on
RECURSIVE ProcessPhases(_, _, _)
ProcessPhases(s, i, elapsed) ==
    IF i > Len(s.options.phases) THEN s
    ELSE IF elapsed >= s.options.phases[i].delay
         THEN ProcessPhases(UpdatePhaseProgress(ActivatePhaseAt(s, i, elapsed), i, elapsed),
                            i + 1, elapsed)
         ELSE ProcessPhases(s, i + 1, elapsed)

\* allPhasesCompleted
AllPhasesCompleted(s) ==
    \A i \in 1..Len(s.phaseStates) : s.phaseStates[i].completed

\* the start of the next cycle of a looping timeline
NextCycle(s, timestamp) ==
    Fired([ResetTimeline(s) EXCEPT !.currentCycle = @ + 1,
                                   !.startTime = timestamp,
                                   !.active = 0], <<"cycleStart">>)

\* the frame callback from `Check if cycle completed` on
\* variant: a timeline that does not loop stays subscribed
CompleteCycle_KeepSubscribed(s, timestamp) ==
    LET completed == Fired(s, <<"cycleComplete">>)
    IN IF s.options.loop /\ s.isPlaying
       THEN IF s.options.loopDelay > 0
            THEN [completed EXCEPT !.isInDelay = TRUE, !.delayStartTime = timestamp,
                                   !.completedAt = timestamp]
            ELSE NextCycle([completed EXCEPT !.completedAt = timestamp], timestamp)
       ELSE [completed EXCEPT !.isPlaying = FALSE,
                              !.halted = TRUE, !.since = "halt"]

CompleteCycle(s, timestamp) ==
    LET completed == Fired(s, <<"cycleComplete">>)
    IN IF s.options.loop /\ s.isPlaying
       THEN IF s.options.loopDelay > 0
            THEN [completed EXCEPT !.isInDelay = TRUE, !.delayStartTime = timestamp,
                                   !.completedAt = timestamp]
            ELSE NextCycle([completed EXCEPT !.completedAt = timestamp], timestamp)
       ELSE [completed EXCEPT !.subscribed = FALSE, !.isPlaying = FALSE,
                              !.halted = TRUE, !.since = "halt"]

\* the frame callback while timelineState.isInDelay
\* variant: the new cycle starts on the first frame of the delay
DelayFrame_NoWait(s, timestamp) == NextCycle(s, timestamp)

DelayFrame(s, timestamp) ==
    IF timestamp - s.delayStartTime >= s.options.loopDelay
    THEN NextCycle(s, timestamp)
    ELSE s

\* the callback of timelineRaf
TimelineFrame(s, timestamp) ==
    LET base == [s EXCEPT !.fired = <<>>, !.elapsed = Never,
                          !.since = IF @ = "replay" THEN "none" ELSE @]
    IN IF ~s.isPlaying THEN [base EXCEPT !.subscribed = FALSE]
       ELSE IF s.isInDelay THEN DelayFrame(base, timestamp)
       ELSE LET begun == IF s.startTime = 0
                         THEN Fired([base EXCEPT !.startTime = timestamp,
                                                 !.active = 0], <<"cycleStart">>)
                         ELSE base
                elapsed == timestamp - begun.startTime
                processed == ProcessPhases([begun EXCEPT !.elapsed = elapsed], 1, elapsed)
            IN IF elapsed >= s.options.cycleDuration \/ AllPhasesCompleted(processed)
               THEN CompleteCycle(processed, timestamp)
               ELSE processed

\* play() of the timeline system
TimelinePlay(s) ==
    [InitializePhaseStates(s) EXCEPT !.isPlaying = TRUE, !.subscribed = TRUE,
                                     !.halted = FALSE,
                                     !.since = IF @ = "halt" THEN "replay" ELSE @]

\* stop() of the timeline system
TimelineStop(s) ==
    [ResetTimeline(s) EXCEPT !.subscribed = FALSE, !.isPlaying = FALSE,
                             !.currentCycle = 0,
                             !.since = "none", !.active = 0, !.completedAt = Never]

\* pause() of the timeline system
TimelinePause(s) == [s EXCEPT !.subscribed = FALSE, !.isPaused = TRUE]

\* resume() of the timeline system
TimelineResume(s) ==
    IF ~s.isPaused THEN s ELSE [s EXCEPT !.isPaused = FALSE, !.subscribed = TRUE]

Started(s, op) == [s EXCEPT !.op = op, !.fired = <<>>, !.elapsed = Never]

\* a frame of the shared clock reaches the timeline's callback
TimelineTick ==
    /\ session.made
    /\ session.subscribed
    /\ session.currentCycle < MaxCycles
    /\ session' = [TimelineFrame(session, session.now) EXCEPT !.op = "tick"]
    /\ UNCHANGED <<clock, timers, step, registry, construct>>

TimelineTimePasses ==
    /\ session.made
    /\ session.now < MaxClock
    /\ session' = [Started(session, "time") EXCEPT
                      !.now = @ + 1,
                      !.active = IF session.startTime # 0
                                    /\ ~(session.isPaused /\ ~session.subscribed)
                                 THEN @ + 1 ELSE @]
    /\ UNCHANGED <<clock, timers, step, registry, construct>>

\* play() of the session: runPlay up to its first await
TimelinePlayCall ==
    /\ session.made
    /\ session.atBeforePlay < MaxPending
    /\ session' = IF session.isPlaying THEN Started(session, "play")
                  ELSE [Started(session, "play") EXCEPT
                           !.isPlaying = TRUE, !.isPaused = FALSE,
                           !.halted = FALSE, !.atBeforePlay = @ + 1]
    /\ UNCHANGED <<clock, timers, step, registry, construct>>

\* runPlay after its await: play() of the playable systems
TimelinePlaySettles ==
    /\ session.made
    /\ session.atBeforePlay > 0
    /\ session' = TimelinePlay([Started(session, "runPlay:modules")
                                  EXCEPT !.atBeforePlay = @ - 1])
    /\ UNCHANGED <<clock, timers, step, registry, construct>>

\* pause() of the session
TimelinePauseCall ==
    /\ session.made
    /\ session' = IF ~session.isPlaying \/ session.isPaused
                  THEN Started(session, "pause")
                  ELSE [TimelinePause(Started(session, "pause")) EXCEPT !.isPaused = TRUE]
    /\ UNCHANGED <<clock, timers, step, registry, construct>>

\* resume() of the session
TimelineResumeCall ==
    /\ session.made
    /\ session' = IF ~session.isPaused THEN Started(session, "resume")
                  ELSE [TimelineResume(Started(session, "resume")) EXCEPT !.isPaused = FALSE]
    /\ UNCHANGED <<clock, timers, step, registry, construct>>

\* stop() of the session
TimelineStopCall ==
    /\ session.made
    /\ session' = IF ~session.isPlaying /\ ~session.isPaused
                  THEN Started(session, "stop")
                  ELSE [TimelineStop(Started(session, "stop"))
                           EXCEPT !.isPlaying = FALSE, !.isPaused = FALSE]
    /\ UNCHANGED <<clock, timers, step, registry, construct>>

\* the timelines checked: phases that follow or overlap one another, a phase
\* without target, cycle windows that end with and before the last phase
PhaseChoices ==
    {<<Phase(0, 1, TRUE)>>,
     <<Phase(0, 1, TRUE), Phase(1, 1, TRUE)>>,
     <<Phase(0, 2, TRUE), Phase(1, 2, FALSE)>>}

TimelineOptionSpace ==
    [phases : PhaseChoices, cycleDuration : {1, 2}, loop : BOOLEAN, loopDelay : {0, 1}]

NewTimeline(options) ==
    [made |-> TRUE, options |-> options, now |-> 1,
     startTime |-> 0, delayStartTime |-> 0, isInDelay |-> FALSE, currentCycle |-> 0,
     phaseStates |-> <<>>, counts |-> <<>>,
     subscribed |-> FALSE, isPlaying |-> FALSE, isPaused |-> FALSE, atBeforePlay |-> 0,
     op |-> "setup", fired |-> <<>>, elapsed |-> Never,
     halted |-> FALSE, since |-> "none", active |-> 0, completedAt |-> Never]

TimelineSpecInit ==
    /\ clock = ClockInit
    /\ timers = [t \in Timers |-> Null]
    /\ step = StepInit
    /\ registry = RegistryIdle
    /\ construct = ConstructIdle
    /\ \E options \in TimelineOptionSpace : session = NewTimeline(options)

TimelineNext ==
    \/ TimelinePlayCall
    \/ TimelinePlaySettles
    \/ TimelineTick
    \/ TimelineTimePasses
    \/ TimelinePauseCall
    \/ TimelineResumeCall
    \/ TimelineStopCall

SpecTimeline == TimelineSpecInit /\ [][TimelineNext]_vars

(***************************************************************************)
(* Claims about the play/stop arbitration                                  *)
(***************************************************************************)
\* what an operation can change of the playback: the flags, the suspended
\* runPlay calls and the modules' own state
Playback(s) ==
    <<s.isPlaying, s.isPaused, s.atBeforePlay, s.atModules, s.cssRunning,
      s.timelineRunning, s.counts>>

\* C1: once stop() has been called explicitly (in any state, idle included),
\* and until an explicit play() or a change of playWhen, an automatic play
\* trigger starts nothing: it leaves the flags as they are, calls no hook and
\* no module, and suspends no runPlay call.
C1_ExplicitStopWinsOverAutoPlay ==
    [][ (session.made /\ session.lastExplicit = "stop" /\ PlayAuto) =>
            (session'.trace = <<>> /\ Playback(session') = Playback(session)) ]_vars

\* C2: once play() has been called explicitly (in any state, also when the
\* session was already playing), and until an explicit stop() or a change of
\* playWhen, an automatic stop trigger stops nothing: it leaves the flags as
\* they are and calls no hook and no module.
C2_ExplicitPlayWinsOverAutoStop ==
    [][ (session.made /\ session.lastExplicit = "play" /\ StopAuto) =>
            (session'.trace = <<>> /\ Playback(session') = Playback(session)) ]_vars

\* C3: as long as only play() calls have been made, however they interleave
\* with the suspended steps of earlier ones, the before-play hook, the
\* modules' play and the after-play hook each run at most once, and each has
\* run exactly once when a play() was made and no call is suspended.
C3_ConcurrentPlaysRunOnce ==
    (session.made /\ session.onlyPlays) =>
        /\ session.counts.beforePlay <= 1
        /\ session.counts.modulePlay <= 1
        /\ session.counts.afterPlay <= 1
        /\ (session.lastExplicit = "play" /\ session.atBeforePlay = 0 /\ session.atModules = 0)
              => session.counts = [beforePlay |-> 1, modulePlay |-> 1, afterPlay |-> 1]

(***************************************************************************)
(* Claims about pause(), stop() and the caller's hooks                     *)
(***************************************************************************)
\* the calls of one kind in a trace, in order
CallsOf(trace, kind) == SelectSeq(trace, LAMBDA c : c[1] = kind)

\* the calls made into module systems in a trace, in order
ModuleCalls(trace) ==
    SelectSeq(trace, LAMBDA c : c[1] \in {"play", "stop", "pause", "resume", "cleanup"})

\* one call of the given kind for each module, in systems order
OncePerModule(mods, kind) == [i \in 1..Len(mods) |-> <<kind, mods[i]>>]

Flags(s) == <<s.isPlaying, s.isPaused>>

\* C14: pause() called while playing and not paused calls each module's
\* pause() once, sets paused and runs the before-pause and after-pause hooks
\* once each; called in any other state it changes no flag and calls no
\* module and no hook.
C14_PauseOnlyWhilePlaying ==
    [][ (session.made /\ PauseCall) =>
          IF session.isPlaying /\ ~session.isPaused
          THEN /\ session'.isPaused
               /\ ModuleCalls(session'.trace) = OncePerModule(session.mods, "pause")
               /\ CallsOf(session'.trace, "hook") =
                     << <<"hook", "beforePause">>, <<"hook", "afterPause">> >>
          ELSE /\ session'.trace = <<>>
               /\ Playback(session') = Playback(session) ]_vars

\* a pause() that took effect
C14_Witness ==
    /\ session.made
    /\ session.op = "pause"
    /\ session.isPaused
    /\ ModuleCalls(session.trace) # <<>>

\* C15: a stop() that the manual override does not suppress, called while the
\* session is playing or paused, calls each module's stop() once and leaves
\* playing and paused false; stop() called while neither playing nor paused
\* calls no module and no hook and changes no flag.
C15_StopClearsFlags ==
    [][ (session.made /\ (Stop \/ (StopAuto /\ session.manualOverride # "play"))) =>
          IF session.isPlaying \/ session.isPaused
          THEN /\ ModuleCalls(session'.trace) = OncePerModule(session.mods, "stop")
               /\ Flags(session') = <<FALSE, FALSE>>
          ELSE /\ session'.trace = <<>>
               /\ Playback(session') = Playback(session) ]_vars

\* a stop() that took effect
C15_Witness ==
    /\ session.made
    /\ session.op \in {"stop", "stopAuto"}
    /\ ModuleCalls(session.trace) # <<>>
    /\ Flags(session) = <<FALSE, FALSE>>

\* the operations that call hooks, as functions of the session
Operation(s, op) ==
    CASE op = "play" -> RunPlay(Begin(s, op), "manual")
      [] op = "playAuto" -> PlayAutoSession(Begin(s, op))
      [] op = "runPlay:modules" -> RunPlayModules(Begin(s, op))
      [] op = "runPlay:end" -> RunPlayEnd(Begin(s, op))
      [] op = "stop" -> StopSession(Begin(s, op), "manual")
      [] op = "stopAuto" -> StopSession(Begin(s, op), "auto")
      [] op = "pause" -> PauseSession(Begin(s, op))
      [] op = "resume" -> ResumeSession(Begin(s, op))

HookedOperations ==
    {"play", "playAuto", "runPlay:modules", "runPlay:end", "stop", "stopAuto",
     "pause", "resume"}

\* the same session with hooks that all return normally
Healthy(s) == [s EXCEPT !.throwing = {}]

\* C18: a hook that throws or rejects does not reach the caller of
\* play/pause/stop/resume, and the operation ends with the flags, the
\* suspended calls and the module calls it has when every hook returns.
C18_HookErrorsAreSwallowed ==
    [][ (session.made /\ session' # session /\ session'.op \in HookedOperations) =>
          LET normal == Operation(Healthy(session), session'.op)
          IN /\ ~session'.escaped
             /\ Playback(session') = Playback(normal)
             /\ session'.manualOverride = normal.manualOverride
             /\ ModuleCalls(session'.trace) = ModuleCalls(normal.trace) ]_vars

\* a stop() whose before-stop hook threw and whose modules were stopped
C18_Witness ==
    /\ session.made
    /\ session.op = "stop"
    /\ <<"caught", "beforeStop">> \in Range(session.trace)
    /\ ModuleCalls(session.trace) # <<>>

\* the operations of the orchestrator: the calls of its API, its playWhen
\* watcher and the continuations of runPlay
OrchestratorOperations ==
    {"play", "playAuto", "stop", "stopAuto", "pause", "resume", "cleanup",
     "playWhen", "runPlay:modules", "runPlay:end"}

\* C29: the playing flag and the paused flag change only in a step that is
\* one of the orchestrator's own operations; no step of a module (the end of
\* a CSS animation, a timeline tick) changes either flag.
C29_FlagsChangeOnlyInOrchestrator ==
    [][ (session.made /\ Flags(session') # Flags(session))
            => session'.op \in OrchestratorOperations ]_vars

(***************************************************************************)
(* Claims about cleanup()                                                  *)
(***************************************************************************)
\* C11: the first cleanup() calls each module's cleanup() once; a second or
\* later cleanup() calls no module's cleanup() and has no other side effect.
C11_CleanupIsIdempotent ==
    [][ (session.made /\ Cleanup) =>
          IF session.cleanups = 0
          THEN ModuleCalls(session'.trace) = OncePerModule(session.mods, "cleanup")
          ELSE /\ session'.trace = <<>>
               /\ Playback(session') = Playback(session) ]_vars

\* the descriptors of the session's modules: webAnimation and cssAnimation
\* declare priority 50, timeline declares priority 40, none declares a
\* cleanupPriority
ModulePlugin(m) ==
    [name |-> m, priority |-> IF m = "timeline" THEN 40 ELSE 50,
     cleanupPriority |-> NoPriority]

ModulePlugins(mods) == [i \in 1..Len(mods) |-> ModulePlugin(mods[i])]

\* C12: cleanup() calls the modules' cleanup() in the order getCleanupOrder
\* gives for them: lowest priority first unless a cleanupPriority says
\* otherwise, so a higher-priority module is cleaned up after every
\* lower-priority one.
C12_CleanupInCleanupOrder ==
    [][ (session.made /\ Cleanup) =>
          LET order == GetCleanupOrder(ModulePlugins(session.mods))
          IN ModuleCalls(session'.trace) =
                [i \in 1..Len(order) |-> <<"cleanup", order[i].name>>] ]_vars

\* C13: once cleanup() has returned, the session holds no subscription to
\* the shared clock, in that state and in every later one, whatever was
\* suspended when cleanup() was called.
C13_NothingSubscribedAfterCleanup ==
    (session.made /\ session.cleanups > 0) => ~session.timelineRunning

\* C20: after cleanup() the exchange of the session's context holds no key.
C20_ExchangeEmptyAfterCleanup ==
    (session.made /\ session.cleanups > 0) => session.exchange = {}

\* the positions of the calls of one kind in a trace
PositionsOf(trace, kind) == {i \in 1..Len(trace) : trace[i][1] = kind}

StopHooks == {"beforeStop", "afterStop", "onStop"}

\* C28: a cleanup() call stops the plugin watchers and the local watchers
\* before it calls any module's cleanup(), calls every module's cleanup()
\* before it runs the registered cleanup callbacks, releases the named shared
\* state last, and calls no module's stop() and no stop hook.
C28_CleanupStepsInOrder ==
    (session.made /\ session.op = "cleanup") =>
        /\ {<<"stopWatchers", "plugin">>, <<"stopWatchers", "local">>}
              \subseteq Range(session.trace)
        /\ \A m \in Range(session.mods) : <<"cleanup", m>> \in Range(session.trace)
        /\ \A i \in PositionsOf(session.trace, "stopWatchers") :
              \A j \in PositionsOf(session.trace, "cleanup") : i < j
        /\ \A i \in PositionsOf(session.trace, "cleanup") :
              \A j \in PositionsOf(session.trace, "handlers") : i < j
        /\ \A i \in PositionsOf(session.trace, "release") : i = Len(session.trace)
        /\ PositionsOf(session.trace, "stop") = {}
        /\ \A i \in PositionsOf(session.trace, "hook") :
              session.trace[i][2] \notin StopHooks

\* the first cleanup() of a session with two modules, called while a play
\* is suspended at its modules: handlers run and the shared state is released
C28_Witness ==
    /\ session.made
    /\ session.op = "cleanup"
    /\ Len(session.mods) = 2
    /\ session.atModules > 0
    /\ PositionsOf(session.trace, "handlers") # {}
    /\ PositionsOf(session.trace, "release") # {}

(***************************************************************************)
(* Claims about activation and registration                                *)
(***************************************************************************)
\* JavaScript truthiness of a configuration value
Truthy(value) == value \in {"true", "object"}

\* the names of the plugins whose setup ran in the construction
WasSetUp(name) == \E i \in 1..Len(construct.log) :
                      construct.log[i] = Event("setup", name)

\* C16: a registered plugin without a shouldActivate predicate is in the
\* activation set exactly when the configuration holds a truthy value under
\* its option key (its optionsKey, else its name), whatever the value is; a
\* plugin with a predicate is active exactly when the predicate returns true.
C16_ActiveIffOptionTruthy ==
    construct.result = "ok" =>
        \A i \in 1..Len(registry) :
            WasSetUp(registry[i].name) <=>
                IF registry[i].shouldActivate = "none"
                THEN Truthy(construct.options.values[
                        IF registry[i].optionsKey # "" THEN registry[i].optionsKey
                        ELSE registry[i].name])
                ELSE registry[i].shouldActivate = "true"

\* the number of setup calls made for a name in a construction
SetupCount(log, name) ==
    Cardinality({i \in 1..Len(log) : log[i] = Event("setup", name)})

\* C17: register() of a well-formed descriptor under a name that is already
\* registered does not throw and replaces the stored descriptor, the registry
\* keeping one entry for the name; a session constructed later runs at most
\* one setup for the name, and it is the setup of the descriptor registered
\* last (a setup that subscribes to the clock exactly when that descriptor's
\* setup does).
C17_RegisterTwiceOverwrites ==
    [][ /\ \A p \in RegisterSpace :
              (Register(p) /\ ~IsInvalidPlugin(p) /\ HasPlugin(registry, p.name)) =>
                  /\ ~session'.threw
                  /\ Len(registry') = Len(registry)
                  /\ \A i \in 1..Len(registry') :
                        registry'[i].name = p.name <=> registry[i].name = p.name
                  /\ \A i \in 1..Len(registry') :
                        registry'[i].name = p.name => registry'[i] = p
        /\ (construct.result = "none" /\ construct'.result # "none" /\ session.calls > 0) =>
              \A n \in RegisterNames :
                  /\ SetupCount(construct'.log, n) <= 1
                  /\ construct'.timers[n] # Null <=>
                        (SetupCount(construct'.log, n) = 1 /\ session.latest[n].kind = "raf")
                  /\ SetupCount(construct'.log, n) = 1 =>
                        construct'.options.values[n] = "object" ]_vars

\* a session constructed after a name was registered twice, the second
\* descriptor's setup being the one that subscribes to the clock
C17_Witness ==
    /\ construct.result = "ok"
    /\ session.calls > Len(registry)
    /\ ~session.threw
    /\ \E i \in 1..Len(registry) :
          /\ registry[i].version = 2
          /\ registry[i].kind = "raf"
          /\ construct.timers[registry[i].name] # Null

(***************************************************************************)
(* Claims about getCleanupOrder                                            *)
(***************************************************************************)
Reverse(seq) == [i \in 1..Len(seq) |-> seq[Len(seq) + 1 - i]]

\* C19: getCleanupOrder returns the plugins it was given in ascending order
\* of cleanup priority (the priority, then 50, when none is declared), and
\* when no plugin declares a cleanup priority the result is exactly the
\* reverse of the setup order, equal priorities included.
C19_CleanupOrderIsReverseOfSetup ==
    construct.result = "order" =>
        /\ Len(construct.cleanupOrder) = Len(construct.plugins)
        /\ Range(construct.cleanupOrder) = Range(construct.plugins)
        /\ \A i, j \in 1..Len(construct.cleanupOrder) :
              i < j => CleanupPriorityOf(construct.cleanupOrder[i])
                          <= CleanupPriorityOf(construct.cleanupOrder[j])
        /\ (\A i \in 1..Len(construct.plugins) :
                construct.plugins[i].cleanupPriority = NoPriority)
              => construct.cleanupOrder = Reverse(construct.setupOrder)

(***************************************************************************)
(* Claims about calculateStaggerDelays                                     *)
(***************************************************************************)
\* two non-negative delays are the same number
SameDelay(x, y) ==
    x.num * x.num * x.root * y.den * y.den = y.num * y.num * y.root * x.den * x.den

Millis(n) == Value(n, 1, 1)

LinearCall ==
    /\ construct.result = "delays"
    /\ construct.options.grid = <<>>
    /\ EaseOf(construct.options) = "linear"

\* C21: a linear stagger without grid and with ease 'linear' over n targets
\* returns n delays; the delay of index i is i * d when from is 'start' and
\* (n - 1 - i) * d when from is 'end'.
C21_LinearDelaysFromStartAndEnd ==
    LinearCall =>
        /\ Len(construct.delays) = construct.count
        /\ FromOf(construct.options) = "start" =>
              \A i \in 0..(construct.count - 1) :
                  SameDelay(construct.delays[i + 1], Millis(i * construct.options.delay))
        /\ FromOf(construct.options) = "end" =>
              \A i \in 0..(construct.count - 1) :
                  SameDelay(construct.delays[i + 1],
                            Millis((construct.count - 1 - i) * construct.options.delay))

\* three targets with delay 100 from the end: [200, 100, 0]
C21_Witness ==
    /\ LinearCall
    /\ construct.count = 3
    /\ construct.options.delay = 100
    /\ construct.options.from = "end"
    /\ construct.delays = <<Millis(200), Millis(100), Millis(0)>>

\* C22: a linear stagger without grid from 'center' returns delays that are
\* symmetric around the midpoint of the list: the delay of index i equals
\* the delay of index n - 1 - i.
C22_CenterDelaysAreSymmetric ==
    (LinearCall /\ FromOf(construct.options) = "center") =>
        \A i \in 0..(construct.count - 1) :
            SameDelay(construct.delays[i + 1], construct.delays[construct.count - i])

GridCenterCall ==
    /\ construct.result = "delays"
    /\ construct.options.grid # <<>>
    /\ FromOf(construct.options) = "center"

\* twice the distance, squared, of element i from the centre of the cells of
\* the grid, which lies at column (cols - 1) / 2 and row (rows - 1) / 2
CentreDistance(i, grid) ==
    LET col == i % grid[1]
        row == i \div grid[1]
    IN  (2 * col - (grid[1] - 1)) * (2 * col - (grid[1] - 1))
          + (2 * row - (grid[2] - 1)) * (2 * row - (grid[2] - 1))

\* C23: in a grid stagger from 'center' every delay is non-negative and two
\* elements at the same distance from the centre of the grid get the same
\* delay, as the elements (0,0) and (1,1) of a 2x2 grid do.
C23_GridCenterDelaysByDistance ==
    GridCenterCall =>
        /\ \A k \in 1..construct.count :
              construct.delays[k].num >= 0 /\ construct.delays[k].den > 0
        /\ \A i, j \in 0..(construct.count - 1) :
              CentreDistance(i, construct.options.grid)
                    = CentreDistance(j, construct.options.grid)
                 => SameDelay(construct.delays[i + 1], construct.delays[j + 1])

(***************************************************************************)
(* Claims about effects under reduced motion                               *)
(***************************************************************************)
\* C24: when can-animate is false or the quality is 'none' at the moment a
\* stagger child is activated or a timeline phase with an animation and a
\* target is activated, the end state of the effect is applied to the target
\* at once: no animation is started and the target is not left untouched.
C24_EndStateAppliedWhenCannotAnimate ==
    (/\ construct.result = "activated"
     /\ ~CanAnimate(construct) \/ AnimationQuality(construct) = "none"
     /\ construct.module = "timeline" => construct.animation /\ construct.targets)
        => construct.effect = "endState"

(***************************************************************************)
(* Claims about the stagger sequencer                                      *)
(***************************************************************************)
\* the delay the options give to index i
DelayOf(s, i) == CalculateStaggerDelays(s.count, s.options)[i + 1]

\* a frame that belongs to the run in progress before and after it
SameRunTick == session'.op = "tick" /\ session.count > 0

\* C30: in a run that was not paused, a frame activates exactly the targets
\* not activated before whose delay is at most the time since the first
\* frame of the run, so that no target is activated twice and each is
\* activated on the first frame that reaches its delay; the frame that
\* leaves every target activated unsubscribes the sequencer from the clock.
C30_EachTargetActivatedOnceAtItsDelay ==
    [][ (SameRunTick /\ ~session.run.paused) =>
          LET first == IF session.run.firstTick = Null THEN session.now
                       ELSE session.run.firstTick
              elapsed == session.now - first
          IN  /\ \A i \in 0..(session.count - 1) :
                    /\ session'.run.activations[i] <= 1
                    /\ session'.run.activations[i] = 1 <=>
                          \/ session.run.activations[i] = 1
                          \/ AtLeast(elapsed, DelayOf(session, i))
              /\ (\A i \in 0..(session.count - 1) : session'.run.activations[i] = 1)
                    => ~session'.subscribed ]_vars

\* the last of two targets has just been activated, one time unit after the
\* first frame, and the sequencer has left the clock
C30_Witness ==
    /\ session.made
    /\ session.op = "tick"
    /\ session.count = 2
    /\ session.options.from = "start"
    /\ ~session.run.paused
    /\ session.run.firstTick # Null
    /\ session.now = session.run.firstTick + 1
    /\ \A i \in 0..1 : session.run.activations[i] = 1
    /\ ~session.subscribed

\* C31: in every run started by trigger(), paused or not, a frame activates exactly the targets
\* not activated before whose delay is at most the un-paused time since the
\* first frame of the run: time spent paused neither advances nor postpones
\* an activation, also when the pause comes before the first frame.
C31_PausedTimeDoesNotCount ==
    [][ (SameRunTick /\ session.run.triggered) =>
          \A i \in 0..(session.count - 1) :
              session'.run.activations[i] = 1 <=>
                  \/ session.run.activations[i] = 1
                  \/ AtLeast(session.run.unpaused, DelayOf(session, i)) ]_vars

\* a trigger() call is suspended before its reset
TriggerInFlight(s) == s.atNextTick + s.atTimeout > 0

\* C32: a trigger() call cancels every effect in flight and every pending
\* timer, the loop timeout included; from the call to the reset of the new
\* run no frame activates a target; and the reset leaves the activated set
\* empty and the elapsed time at zero.
C32_RetriggerCancelsTheOldRun ==
    [][ /\ session'.op = "play" =>
              session'.activeAnimations = {} /\ ~session'.loopTimer
        /\ (session'.op = "tick" /\ TriggerInFlight(session)) =>
              session'.run.activations = session.run.activations
        /\ (session'.op \in {"trigger:nextTick", "trigger:timeout"}
              /\ ~TriggerInFlight(session') /\ session.count > 0) =>
              /\ session'.activatedIndices = {}
              /\ session'.startTime = 0
              /\ session'.totalPausedTime = 0 ]_vars

\* every target of the triggered run has been activated
RunCompleted(s) ==
    /\ s.made /\ s.count > 0 /\ s.run.triggered
    /\ \A i \in 0..(s.count - 1) : s.run.activations[i] = 1

\* a trigger() has reset the bookkeeping and no target is activated yet
RunStarted(s) ==
    /\ s.made /\ s.run.triggered /\ s.subscribed
    /\ \A i \in 0..(s.count - 1) : s.run.activations[i] = 0

\* C38: with options.loop set, a completed run of a playing session is
\* followed by a new run or by the end of playing, whenever every pause() is
\* followed by a resume().
C38_LoopingRunIsFollowedByNewRun ==
    (RunCompleted(session) /\ session.options.loop /\ session.isPlaying)
        ~> (RunStarted(session) \/ ~session.isPlaying)

\* the modules whose play() an operation called
ModulesPlayed(s) ==
    {s.trace[i][2] : i \in {j \in 1..Len(s.trace) : s.trace[j][1] = "play"}}

\* C36: when stop() was called while a play() is suspended at its beforePlay
\* hook, the continuation of that play() starts no module and leaves the
\* session not playing and the timeline unsubscribed.
C36_StopWinsOverSuspendedPlay ==
    [][ (session.made /\ session.op = "stop" /\ session.atBeforePlay > 0
            /\ BeforePlaySettles) =>
            /\ ModulesPlayed(session') = {}
            /\ ~session'.isPlaying
            /\ ~session'.timelineRunning ]_vars

\* C39: in every reachable state of a session, the paused flag is set only
\* while the playing flag is set.
C39_PausedImpliesPlaying ==
    session.made => (session.isPaused => session.isPlaying)

(***************************************************************************)
(* Claims about the timeline                                               *)
(***************************************************************************)
\* how often an operation fired a callback
Occurrences(fired, event) ==
    Cardinality({k \in 1..Len(fired) : fired[k] = event})

\* the callbacks of a phase counted since the phase states were reset
CountBefore(s, i) ==
    IF i <= Len(s.counts) THEN s.counts[i] ELSE [start |-> 0, complete |-> 0]

PhaseOf(s, i) == s.options.phases[i]

\* C33: between two resets of the phase states, each phase's start callback
\* fires at most once and only at an elapsed time of at least the phase's
\* delay; its completion callback fires at most once, only after its start
\* callback and only at an elapsed time of at least delay plus duration.
C33_PhaseCallbacksOncePerCycle ==
    [][ (session.made /\ session'.op = "tick") =>
          \A i \in 1..Len(session.options.phases) :
            LET starts == Occurrences(session'.fired, <<"start", i>>)
                completes == Occurrences(session'.fired, <<"complete", i>>)
            IN /\ CountBefore(session, i).start + starts <= 1
               /\ CountBefore(session, i).complete + completes <= 1
               /\ starts > 0 => session'.elapsed >= PhaseOf(session, i).delay
               /\ completes > 0 =>
                     /\ session'.elapsed - PhaseOf(session, i).delay
                            >= PhaseOf(session, i).duration
                     /\ \/ CountBefore(session, i).start = 1
                        \/ \E j, k \in 1..Len(session'.fired) :
                              /\ j < k
                              /\ session'.fired[j] = <<"start", i>>
                              /\ session'.fired[k] = <<"complete", i>> ]_vars

\* the second of two phases completes two time units into the cycle, one
\* frame after it started
C33_Witness ==
    /\ session.made /\ session.op = "tick"
    /\ Len(session.options.phases) = 2
    /\ session.fired = <<<<"complete", 2>>, <<"cycleComplete">>>>
    /\ session.elapsed = 2
    /\ session.counts[2] = [start |-> 1, complete |-> 1]
    /\ session.counts[1] = [start |-> 1, complete |-> 1]

\* C34: with looping off, a frame of a playing timeline fires the
\* cycle-complete event exactly when the elapsed time has reached the cycle
\* duration or every phase is completed, and then fires it once, unsubscribes
\* from the clock and clears the playing flag; after such a halt and until
\* the next play(), a frame fires no callback.
C34_HaltsOnceWhenCycleCompletes ==
    [][ (session.made /\ session'.op = "tick" /\ ~session.options.loop) =>
          /\ session.isPlaying =>
                IF \/ session'.elapsed >= session.options.cycleDuration
                   \/ AllPhasesCompleted(session')
                THEN /\ Occurrences(session'.fired, <<"cycleComplete">>) = 1
                     /\ session'.fired[Len(session'.fired)] = <<"cycleComplete">>
                     /\ ~session'.subscribed
                     /\ ~session'.isPlaying
                ELSE /\ Occurrences(session'.fired, <<"cycleComplete">>) = 0
                     /\ session'.subscribed
                     /\ session'.isPlaying
          /\ session.halted => session'.fired = <<>> /\ ~session'.isPlaying ]_vars

\* the frame that completes the only phase of a timeline halts it before the
\* cycle window has ended
C34_Witness ==
    /\ session.made /\ session.op = "tick" /\ ~session.options.loop
    /\ session.options.cycleDuration = 2
    /\ session.elapsed = 1
    /\ session.fired = <<<<"complete", 1>>, <<"cycleComplete">>>>
    /\ session.halted /\ ~session.subscribed /\ ~session.isPlaying

\* the phase start callbacks an operation fired
StartsFired(s) ==
    {k \in 1..Len(s.fired) : s.fired[k][1] = "start"}

PhasesReset(s) ==
    \A i \in 1..Len(s.options.phases) :
        s.phaseStates[i] = [started |-> FALSE, completed |-> FALSE]

\* C35: with looping on, the frame that completes a cycle of a playing
\* timeline starts the next cycle at once when no loop delay is configured,
\* and otherwise enters the delay; a frame during the delay starts the next
\* cycle exactly when the delay has elapsed since the completion; starting
\* the next cycle adds one to the cycle counter and resets every phase, the
\* counter changes in no other frame, and no phase is started before the
\* delay has elapsed since the completion.
C35_LoopStartsExactlyOneNewCycle ==
    [][ (session.made /\ session'.op = "tick" /\ session.options.loop
            /\ session.isPlaying) =>
          LET completes == Occurrences(session'.fired, <<"cycleComplete">>)
              waited == session.now - session.completedAt >= session.options.loopDelay
              restarts == IF session.isInDelay THEN waited
                          ELSE completes = 1 /\ session.options.loopDelay = 0
          IN /\ completes <= 1
             /\ session.isInDelay => completes = 0 /\ StartsFired(session') = {}
             /\ IF restarts
                THEN /\ session'.currentCycle = session.currentCycle + 1
                     /\ PhasesReset(session')
                     /\ ~session'.isInDelay
                     /\ session'.fired[Len(session'.fired)] = <<"cycleStart">>
                ELSE /\ session'.currentCycle = session.currentCycle
                     /\ session'.isInDelay <=> (session.isInDelay \/ completes = 1)
             /\ (StartsFired(session') # {} /\ session.completedAt # Never) =>
                   session.now - session.completedAt >= session.options.loopDelay ]_vars

\* a phase of the second cycle starts after the loop delay was waited out
C35_Witness ==
    /\ session.made /\ session.op = "tick" /\ session.options.loop
    /\ session.options.loopDelay = 1
    /\ session.currentCycle = 1
    /\ session.fired = <<<<"start", 1>>>>
    /\ session.elapsed = 0
    /\ session.completedAt # Never
    /\ session.now = session.completedAt + 1

\* C37: on the first frame after a play() that restarted a timeline which had
\* halted on its own, the elapsed time is zero and the cycle is not
\* completed.
C37_ReplayAfterHaltStartsAtZero ==
    [][ (session.made /\ session'.op = "tick" /\ session.since = "replay"
            /\ session.isPlaying /\ ~session.isInDelay) =>
            /\ session'.elapsed = 0
            /\ Occurrences(session'.fired, <<"cycleComplete">>) = 0 ]_vars

\* C40: the elapsed time a frame computes is the time since the cycle's start
\* without the time the session spent paused.
C40_PausedTimeDoesNotAdvanceTheCycle ==
    [][ (session.made /\ session'.op = "tick" /\ session.isPlaying
            /\ ~session.isInDelay /\ session.startTime # 0) =>
            session'.elapsed = session.active ]_vars

(***************************************************************************)
(* Claims about the shared clock                                           *)
(***************************************************************************)
\* C4: in every reachable state at most one frame request is outstanding,
\* and between frames exactly one is outstanding while a subscriber exists.
C4_SingleFrameRequest ==
    /\ Cardinality(clock.pending) <= 1
    /\ (~step.active /\ Len(clock.callbacks) > 0) => Cardinality(clock.pending) = 1

\* C5: whenever the subscriber count is zero no frame request is outstanding,
\* and the subscribe that follows a count of zero leaves exactly one request
\* outstanding.
C5_StopsAtZeroAndRestarts ==
    [][ /\ (Len(clock'.callbacks) = 0 => clock'.pending = {})
        /\ (Len(clock.callbacks) = 0 /\ Len(clock'.callbacks) > 0
              => Cardinality(clock'.pending) = 1) ]_vars

\* the subscriptions the timers hold: a symbol is subscribed from the resume
\* that returned it to the pause that removes it
Subscribed == {timers[t] : t \in Timers} \ {Null}

InvokedIds(invoked) == {invoked[k].id : k \in 1..Len(invoked)}

TimesInvoked(invoked, id) == Cardinality({k \in 1..Len(invoked) : invoked[k].id = id})

\* C25: a subscriber added while a tick is being dispatched is not invoked
\* during that tick: every subscriber a tick invokes was subscribed when
\* the tick started.
C25_AddedMidTickWaitsForNextTick ==
    step.active => InvokedIds(step.invoked) \subseteq step.present

\* C26: a tick invokes only subscribers that are subscribed at that moment,
\* each at most once and with the tick's timestamp, so a subscriber removed
\* during the tick is not invoked again in it; a removed subscription never
\* returns to the clock, so no later tick invokes it; and when the tick ends
\* every subscriber that was present at its start and was not removed has
\* been invoked exactly once.
C26_RemovedMidTickNotInvokedAgain ==
    [][ /\ Len(step'.invoked) > Len(step.invoked) =>
              LET call == step'.invoked[Len(step'.invoked)]
              IN  /\ call.id \in Subscribed
                  /\ call.id \notin InvokedIds(step.invoked)
                  /\ call.time = step.timestamp
        /\ \A id \in Subscribed' \ Subscribed : id > clock.symbols
        /\ (step.active /\ ~step'.active) =>
              \A id \in step.present \cap Subscribed :
                  TimesInvoked(step.invoked, id) = 1 ]_vars

\* a tick whose dispatch is over: one subscriber present at its start was
\* removed during the tick and not invoked, another was invoked
C26_Witness ==
    /\ step.active
    /\ ToVisit(clock, step.cursor) = {}
    /\ \E id \in step.present \ Subscribed : id \notin InvokedIds(step.invoked)
    /\ \E id \in step.present \cap Subscribed : id \in InvokedIds(step.invoked)

(***************************************************************************)
(* Claims about setupPlugins and session construction                      *)
(* The configuration is read here directly from the descriptors and the    *)
(* options, not through the operators that model the registry's code.      *)
(***************************************************************************)
Constructed == construct.result # "none"

Registered == {registry[i] : i \in 1..Len(registry)}

InActivationSet(name) == Constructed /\ construct.options.values[name] = "object"

ActivePlugins == {p \in Registered : InActivationSet(p.name)}

RegistrationIndex(name) == CHOOSE i \in 1..Len(registry) : registry[i].name = name

Descriptor(name) == registry[RegistrationIndex(name)]

\* priority with a missing priority counted as 50
DeclaredPriority(name) ==
    IF Descriptor(name).priority = NoPriority THEN 50 ELSE Descriptor(name).priority

\* pairs <<A, B>>: active A lists a hard dependency on B, B not active
UnmetDependencies ==
    {pr \in NameSet \X NameSet :
        \E p \in ActivePlugins :
            /\ p.name = pr[1]
            /\ \E i \in 1..Len(p.requires) : p.requires[i][1] = pr[2]
            /\ ~InActivationSet(pr[2])}

\* pairs <<A, B>>: active A names another active module B in its conflicts
ActiveConflicts ==
    {pr \in NameSet \X NameSet :
        \E p \in ActivePlugins :
            /\ p.name = pr[1]
            /\ pr[2] # pr[1]
            /\ \E i \in 1..Len(p.conflicts) : p.conflicts[i] = pr[2]
            /\ InActivationSet(pr[2])}

EventsOf(ev) == SelectSeq(construct.log, LAMBDA e : e.ev = ev)

NamesOf(events) == [i \in 1..Len(events) |-> events[i].plugin]

SetupOrder == NamesOf(EventsOf("setup"))

NoSetupRan ==
    /\ SetupOrder = <<>>
    /\ \A n \in NameSet : <<n, "system">> \notin construct.exchange

ErrorNames(kind, pairs) ==
    /\ construct.result = "threw"
    /\ construct.error.kind = kind
    /\ <<construct.error.plugin, construct.error.other>> \in pairs

\* C6: whenever an active module lists a hard dependency that is not in the
\* Activation Set, setupPlugins throws an error naming both modules, and no
\* setup ran and no <module>.system entry is in the exchange.
C6_UnmetDependencyThrowsBeforeSetup ==
    (Constructed /\ UnmetDependencies # {}) =>
        (ErrorNames("dependency", UnmetDependencies) /\ NoSetupRan)

C6_Witness ==
    /\ Constructed
    /\ UnmetDependencies # {}
    /\ construct.result = "threw"
    /\ \E p \in ActivePlugins : p.requires # <<>> /\ Len(p.requires[1]) = 2

\* C7 as stated: whenever an active module names another active module in its
\* conflicts list, setupPlugins throws an error naming both modules and no
\* setup ran.
C7_ConflictErrorNamesBoth ==
    (Constructed /\ ActiveConflicts # {}) =>
        (ErrorNames("conflict", ActiveConflicts) /\ NoSetupRan)

\* C7 amended: whenever an active module names another active module in its
\* conflicts list, setupPlugins throws and no setup ran; the error names the
\* two conflicting modules unless a hard dependency of an active module is
\* unmet too, and then it is the dependency error, which is validated first.
C7_ConflictThrowsBeforeSetup ==
    (Constructed /\ ActiveConflicts # {}) =>
        /\ NoSetupRan
        /\ IF UnmetDependencies = {}
           THEN ErrorNames("conflict", ActiveConflicts)
           ELSE ErrorNames("dependency", UnmetDependencies)

C7_Witness ==
    /\ Constructed
    /\ ActiveConflicts # {}
    /\ UnmetDependencies = {}
    /\ construct.error.kind = "conflict"
    /\ <<construct.error.other, construct.error.plugin>> \notin ActiveConflicts

\* position of an active module in the order the claim prescribes:
\* descending priority, registration order among equal priorities
Precedes(m, n) ==
    \/ DeclaredPriority(m) > DeclaredPriority(n)
    \/ /\ DeclaredPriority(m) = DeclaredPriority(n)
       /\ RegistrationIndex(m) < RegistrationIndex(n)

InClaimedOrder(names) ==
    \A i, j \in 1..Len(names) : i < j => Precedes(names[i], names[j])

Filter(names, Keep(_)) == SelectSeq(names, Keep)

\* C8: setups run in descending priority order (missing priority = 50),
\* equal priorities in registration order; a construction that succeeds sets
\* up every active module, and registers watchers and builds the API in that
\* same order.
C8_SetupInPriorityOrder ==
    Constructed =>
        /\ InClaimedOrder(SetupOrder)
        /\ construct.result = "ok" =>
            /\ Range(SetupOrder) = {p.name : p \in ActivePlugins}
            /\ NamesOf(EventsOf("watch")) = Filter(SetupOrder, HasRegisterWatchers)
            /\ NamesOf(EventsOf("api")) = Filter(SetupOrder, HasContributeToAPI)

C8_Witness ==
    /\ construct.result = "ok"
    /\ Len(SetupOrder) = 3
    /\ DeclaredPriority(SetupOrder[1]) > DeclaredPriority(SetupOrder[2])
    /\ DeclaredPriority(SetupOrder[2]) = DeclaredPriority(SetupOrder[3])
    /\ Descriptor(SetupOrder[2]).priority # Descriptor(SetupOrder[3]).priority
    /\ RegistrationIndex(SetupOrder[1]) > RegistrationIndex(SetupOrder[2])
    /\ Len(EventsOf("watch")) = 2

\* the active modules whose setup throws when it is invoked; the one that
\* is invoked is the first of them in the claimed order
FaultySetups ==
    {p.name : p \in {q \in ActivePlugins : q.kind = "throws"}}

ThrowingSetups ==
    {t \in FaultySetups : \A u \in FaultySetups \ {t} : Precedes(t, u)}

\* C9: when a module's setup throws, the error reaches the caller, exactly
\* the modules before it in priority order were set up and none after it,
\* and neither watcher registration nor API building (nor the seeding of the
\* orchestrator callbacks before them) ran.
C9_SetupErrorPropagates ==
    (Constructed /\ UnmetDependencies = {} /\ ActiveConflicts = {}) =>
        \A t \in ThrowingSetups :
            /\ construct.result = "threw"
            /\ construct.error.kind = "setup"
            /\ construct.error.plugin = t
            /\ Range(SetupOrder) = {p.name : p \in {q \in ActivePlugins : Precedes(q.name, t)}}
            /\ EventsOf("watch") = <<>>
            /\ EventsOf("api") = <<>>
            /\ EventsOf("seed") = <<>>

C9_Witness ==
    /\ Constructed
    /\ construct.error.kind = "setup"
    /\ Len(SetupOrder) = 1
    /\ Cardinality(ActivePlugins) = 3

\* C10: after a construction failed because a setup threw, no clock
\* subscription of the session remains and the session is not registered as
\* a consumer of its named state.
C10_FailedConstructionLeavesNothing ==
    (Constructed /\ construct.error.kind = "setup") =>
        /\ Len(clock.callbacks) = 0
        /\ clock.pending = {}
        /\ construct.consumers = {}

\* C27: in every construction, no setup call can read orchestrator.play,
\* orchestrator.pause, orchestrator.stop or orchestrator.resume in the
\* exchange, and every registerWatchers call is made after the setup of every
\* active plugin has returned and can read all four keys.
C27_WatchersAfterSetupAndSeed ==
    Constructed =>
        \A i \in 1..Len(construct.log) :
            /\ construct.log[i].ev = "setup" =>
                  construct.seen[i] \cap OrchestratorCallbacks = {}
            /\ construct.log[i].ev = "watch" =>
                  /\ OrchestratorCallbacks \subseteq construct.seen[i]
                  /\ \A p \in ActivePlugins :
                        \E j \in 1..(i - 1) : construct.log[j] = Event("setup", p.name)

\* a construction that set up three plugins and registered watchers
C27_Witness ==
    /\ construct.result = "ok"
    /\ Cardinality(ActivePlugins) = 3
    /\ Len(EventsOf("setup")) = 3
    /\ Len(EventsOf("watch")) >= 1

====
